---- MODULE Spec2Model ----
(***************************************************************************)
(* HGraph: hierarchical proximity-graph index (src/algorithm/hgraph.cpp)   *)
(* and the best-first searcher (src/impl/basic_searcher.cpp).              *)
(*                                                                         *)
(* Vectors are one-dimensional integers, the metric is squared L2.  The    *)
(* index state is the state of one HGraph object; every public operation   *)
(* is one action that leaves its response in the variable ret.             *)
(***************************************************************************)
EXTENDS Integers, Sequences, FiniteSets, TLC

(*************************** bounds of the model ***************************)
\* most points the index holds
MaxPoints == 3
\* labels are 1..NumLabels
NumLabels == 3
\* vector components and query components are 0..MaxVal
MaxVal == 2
\* get_random_level() - 1 ranges over -1..MaxDraw
MaxDraw == 0
\* longest batch handed to Add
MaxBatch == 3
\* ef_search ranges over 1..MaxEf
MaxEf == 2
\* capacity grows in multiples of 2^ResizeBit (resize_increase_count_bit_)
ResizeBit == 1
\* bottom_graph_->MaximumDegree()
MaxDegree == 2
\* the step-by-step insertion stops at BuildPoints points
BuildPoints == 4
\* its levels, get_random_level() - 1, range over -1..MaxBuildDraw
MaxBuildDraw == 1
\* the graphs handed to a searcher on its own have SearchNodes nodes
SearchNodes == 6
\* ef of such a call ranges over 1..MaxSearchEf, topk over 1..MaxTopk
MaxSearchEf == 2
MaxTopk == 2
\* prefetch_jump_visit_size_ ranges over 0..MaxPrefetch
MaxPrefetch == 1
\* the radius of a range search on its own
SearchRadius == 4
\* the batch a build pool inserts has ConcPoints points
ConcPoints == 3
\* build_thread_count_
BuildThreads == 2
\* the levels its workers draw range over -1..MaxConcDraw
MaxConcDraw == 1
\* the stripe table of the per-node locks is capped at FewStripes or at
\* MaxStripes
FewStripes == 2
MaxStripes == 4
\* points in the batch of the Add that follows a pool-built one
MoreBatch == 2

(***************************** program constants **************************)
\* std::numeric_limits<float>::max(), the initial lower_bound
FloatMax == 1000000
\* dim_ of the index (common_param.dim_)
Dim == 1
\* ef_construction_
EfConstruct == 2

Labels == 1..NumLabels
Vals == 0..MaxVal
Draws == (0 - 1)..MaxDraw
BuildDraws == (0 - 1)..MaxBuildDraw
\* the queries of a searcher on its own
SearchQueries == {0, MaxVal}
KNN_SEARCH_MODE == "KNN"
RANGE_SEARCH_MODE == "RANGE"
\* a null filter pointer
NoFilter == [on |-> FALSE, admit |-> {}]
\* a filter that admits the labels of S
Admit(S) == [on |-> TRUE, admit |-> S]
\* an entry_point_id_ that names no inserted point
NoEntry == 0 - 1

VARIABLES
    use_reorder_,     \* hgraph_param.use_reorder_
    labels_,          \* inner id -> label, length max_capacity_
    label_lookup_,    \* label -> inner id
    base_codes,       \* basic_flatten_codes_: inner id -> stored code
    precise_codes,    \* high_precise_codes_: inner id -> stored code
    bottom_graph_,    \* [nbrs: inner id -> neighbor list, total: TotalCount]
    route_graphs_,    \* sequence of sparse graphs, route_graphs_[j+1] is layer j
    max_level_,
    entry_point_id_,
    max_capacity_,
    ret,              \* response of the last public operation
    threads,          \* the build workers, the query thread and the locks
    saved,            \* the payload the caller keeps from the last Serialize
    in_flight         \* the add_one_point call that has started and not returned

vars == <<use_reorder_, labels_, label_lookup_, base_codes, precise_codes,
          bottom_graph_, route_graphs_, max_level_, entry_point_id_,
          max_capacity_, ret, saved, in_flight, threads>>

index == <<use_reorder_, labels_, label_lookup_, base_codes, precise_codes,
           bottom_graph_, route_graphs_, max_level_, entry_point_id_,
           max_capacity_>>

\* what the caller holds besides the response
aux == <<saved, in_flight, threads>>

(******************************* helpers ***********************************)
Min(a, b) == IF a <= b THEN a ELSE b
Max(a, b) == IF a >= b THEN a ELSE b
Range(s) == {s[i] : i \in 1..Len(s)}

\* sequences over S of length lo..hi
SeqsOf(S, lo, hi) == UNION {[1..n -> S] : n \in lo..hi}

(************************* codec (flatten store) ***************************)
\* the metric: squared L2 distance of two one-dimensional vectors
L2Sqr(a, b) == (a - b) * (a - b)

\* the code the base codec stores: quantized when a precise codec exists
BaseEncode(use_reorder, v) == IF use_reorder THEN (v \div 2) * 2 ELSE v

\* flatten->Query(&dist, computer, &id, 1)
Query(query, codes, id) == L2Sqr(query, codes[id])

(****************************** MaxHeap ************************************)
\* A heap is a set of <<distance, inner id>> pairs.  The comparator looks at
\* the distance only; tb (1 or -1) says which of the equal-distance entries
\* the heap keeps on top (the larger or the smaller inner id).
Top(h, tb) ==
    CHOOSE x \in h : \A y \in h :
        \/ x[1] > y[1]
        \/ x[1] = y[1] /\ tb * x[2] >= tb * y[2]

Pop(h, tb) == h \ {Top(h, tb)}

(**************************** graph data cell ******************************)
EmptyGraph == [nbrs |-> <<>>, total |-> 0]

\* graph->GetNeighbors(id, neighbors)
GetNeighbors(graph, id) ==
    IF id \in DOMAIN graph.nbrs THEN graph.nbrs[id] ELSE <<>>

\* graph->InsertNeighborsById(id, neighbors)
InsertNeighborsById(graph, id, list) ==
    [graph EXCEPT !.nbrs =
        [x \in (DOMAIN graph.nbrs) \cup {id} |->
            IF x = id THEN list ELSE graph.nbrs[x]]]

\* graph->IncreaseTotalCount(1)
IncreaseTotalCount(graph) == [graph EXCEPT !.total = @ + 1]

(******************************* searcher **********************************)
\* mutant: the filter is not consulted
IsIdAllowed_always(allowed, labels, id) == TRUE

\* (*is_id_allowed)(get_label_by_id(id)), or true for a null filter
IsIdAllowed(allowed, labels, id) ==
    \/ ~allowed.on
    \/ labels[id] \in allowed.admit

\* hgraph.cpp 431-444: the neighbors not yet visited, in list order, each
\* marked visited as it is recorded
RECURSIVE ToBeVisited(_, _)
ToBeVisited(neighbors, visited) ==
    IF neighbors = <<>> THEN <<>>
    ELSE IF Head(neighbors) \in visited
         THEN ToBeVisited(Tail(neighbors), visited)
         ELSE <<Head(neighbors)>> \o
              ToBeVisited(Tail(neighbors), visited \cup {Head(neighbors)})

\* the result heap and lower_bound as one neighbor leaves them, appended to
\* the record of the search
Logged(st) == [st EXCEPT !.log = @ \o <<[res |-> st.res, lb |-> st.lb]>>]

\* mutant: the result heap is popped one entry late
Overfull_late(res, ef) == Cardinality(res) > ef + 1

\* hgraph.cpp 460: cur_result.size() > ef
Overfull(res, ef) == Cardinality(res) > ef

\* hgraph.cpp 448-469: one pass over the computed distances
RECURSIVE RelaxNeighbors(_, _, _, _, _, _, _, _)
RelaxNeighbors(mode, query, codes, labels, param, tb, st, ids) ==
    IF ids = <<>> THEN st
    ELSE
      LET n == Head(ids)
          dist == Query(query, codes, n)
      IN IF \/ Cardinality(st.res) < param.ef
            \/ st.lb > dist
            \/ (mode = RANGE_SEARCH_MODE /\ dist <= param.radius)
         THEN
           LET cand1 == st.cand \cup {<<0 - dist, n>>}
               res1 == IF IsIdAllowed(param.allowed, labels, n)
                       THEN st.res \cup {<<dist, n>>} ELSE st.res
               res2 == IF mode = KNN_SEARCH_MODE /\ Overfull(res1, param.ef)
                       THEN Pop(res1, tb) ELSE res1
               lb1 == IF res2 # {} THEN Top(res2, tb)[1] ELSE st.lb
           IN RelaxNeighbors(mode, query, codes, labels, param, tb,
                  Logged([st EXCEPT !.cand = cand1, !.res = res2, !.lb = lb1,
                                    !.queried = @ \o <<n>>]),
                  Tail(ids))
         ELSE RelaxNeighbors(mode, query, codes, labels, param, tb,
                  Logged([st EXCEPT !.queried = @ \o <<n>>]), Tail(ids))

\* hgraph.cpp 406-413: the loop is left
SearchEnded(mode, param, tb, st) ==
    \/ st.cand = {}
    \/ /\ mode = KNN_SEARCH_MODE
       /\ (0 - Top(st.cand, tb)[1]) > st.lb
       /\ Cardinality(st.res) = param.ef

\* hgraph.cpp 414-469: one pass of the loop, on the closest candidate
ExpandWith(mode, query, codes, labels, param, tb, st, cur, tbv) ==
    RelaxNeighbors(mode, query, codes, labels, param, tb,
        [st EXCEPT !.cand = @ \ {cur}, !.vis = @ \cup Range(tbv)], tbv)

ExpandOnce(mode, query, graph, codes, labels, param, tb, st) ==
    ExpandWith(mode, query, codes, labels, param, tb, st, Top(st.cand, tb),
        ToBeVisited(GetNeighbors(graph, Top(st.cand, tb)[2]), st.vis))

\* hgraph.cpp 406-470: the best-first loop
RECURSIVE SearchLoop(_, _, _, _, _, _, _, _)
SearchLoop(mode, query, graph, codes, labels, param, tb, st) ==
    IF SearchEnded(mode, param, tb, st) THEN st
    ELSE SearchLoop(mode, query, graph, codes, labels, param, tb,
             ExpandOnce(mode, query, graph, codes, labels, param, tb, st))

\* hgraph.cpp 384-400: the state before the loop
SearchStart(mode, query, codes, labels, param, tb) ==
    LET ep == param.ep
        dist == Query(query, codes, ep)
        admitted == IsIdAllowed(param.allowed, labels, ep)
        res0 == IF admitted THEN {<<dist, ep>>} ELSE {}
        lb0 == IF admitted THEN dist ELSE FloatMax
        popped == mode = RANGE_SEARCH_MODE /\ dist > param.radius
        st0 == [cand |-> {<<0 - dist, ep>>},
                res |-> IF popped /\ res0 # {} THEN Pop(res0, tb) ELSE res0,
                lb |-> lb0,
                vis |-> {ep},
                queried |-> <<ep>>,
                log |-> <<>>,
                ub |-> popped /\ res0 = {}]
    IN st0

\* HGraph::search_one_graph<mode>.  The result record holds the returned
\* heap (res), the ids whose distance was computed, in order (queried), and
\* whether an empty heap was popped (ub).
search_one_graph(mode, query, graph, codes, labels, param, tb) ==
    SearchLoop(mode, query, graph, codes, labels, param, tb,
               SearchStart(mode, query, codes, labels, param, tb))

\* the mode search_one_graph runs in when the call names none
DefaultSearchMode == KNN_SEARCH_MODE

\* mutant: an entry is kept only while the heap has room
Readmit_never(heap, d, tb) == FALSE

\* hgraph.cpp 900: a rescored entry no farther than the top is pushed
Readmit(heap, d, tb) == d <= Top(heap, tb)[1]

\* HGraph::reorder: rescore the heap with the precise codec, keep k
RECURSIVE ReorderLoop(_, _, _, _, _, _)
ReorderLoop(query, codes, ids, k, tb, heap) ==
    IF ids = <<>> THEN heap
    ELSE
      LET d == Query(query, codes, Head(ids))
          h1 == IF Cardinality(heap) < k \/ Readmit(heap, d, tb)
                THEN heap \cup {<<d, Head(ids)>>} ELSE heap
          h2 == IF Cardinality(h1) > k THEN Pop(h1, tb) ELSE h1
      IN ReorderLoop(query, codes, Tail(ids), k, tb, h2)

\* the ids of a heap in the order top()/pop() yields them
RECURSIVE Drain(_, _)
Drain(heap, tb) ==
    IF heap = {} THEN <<>>
    ELSE <<Top(heap, tb)>> \o Drain(Pop(heap, tb), tb)

reorder(query, codes, candidate_heap, k0, tb) ==
    LET size == Cardinality(candidate_heap)
        k == IF k0 <= 0 THEN size ELSE k0
        drained == Drain(candidate_heap, tb)
        ids == [i \in 1..size |-> drained[i][2]]
    IN ReorderLoop(query, codes, ids, k, tb, {})

(******************** pruner (neighbor selection) **************************)
\* the not-dominated rule over an ascending candidate list of
\* <<distance to u, v>>: v is taken iff it is farther from every chosen w
\* than from u; at most m are taken
RECURSIVE SelectNeighbors(_, _, _, _)
SelectNeighbors(cands, codes, m, chosen) ==
    IF cands = <<>> \/ Len(chosen) >= m THEN chosen
    ELSE
      LET d == Head(cands)[1]
          v == Head(cands)[2]
          keep == \A i \in 1..Len(chosen) :
                      L2Sqr(codes[v], codes[chosen[i]]) > d
      IN SelectNeighbors(Tail(cands), codes, m,
                         IF keep THEN Append(chosen, v) ELSE chosen)

\* a heap as an ascending list
Ascending(heap, tb) ==
    LET d == Drain(heap, tb)
    IN [i \in 1..Len(d) |-> d[Len(d) + 1 - i]]

\* append u to the list of w; a list longer than m is pruned by the same rule
LinkBack(graph, codes, m, w, u, tb) ==
    LET list == Append(GetNeighbors(graph, w), u)
        heap == {<<L2Sqr(codes[w], codes[list[i]]), list[i]>> : i \in 1..Len(list)}
        pruned == IF Len(list) > m
                  THEN SelectNeighbors(Ascending(heap, tb), codes, m, <<>>)
                  ELSE list
    IN InsertNeighborsById(graph, w, pruned)

RECURSIVE LinkBackAll(_, _, _, _, _, _)
LinkBackAll(graph, codes, m, ws, u, tb) ==
    IF ws = <<>> THEN graph
    ELSE LinkBackAll(LinkBack(graph, codes, m, Head(ws), u, tb),
                     codes, m, Tail(ws), u, tb)

\* mutually_connect_new_element: returns the graph and the next entry point
mutually_connect_new_element(inner_id, result, graph, codes, m, tb) ==
    LET selected == SelectNeighbors(Ascending(result, tb), codes, m, <<>>)
        g1 == InsertNeighborsById(graph, inner_id, selected)
    IN [graph |-> LinkBackAll(g1, codes, m, selected, inner_id, tb),
        ep |-> selected[1]]

(***************************** capacity ************************************)
\* mutant: rounds up to the multiple after x even when x is one
next_multiple_of_power_of_two_above(x, n) ==
    LET y == 2 ^ n
    IN ((x + y) \div y) * y

\* (x + y - 1) & ~(y - 1) with y = 1 << n
next_multiple_of_power_of_two(x, n) ==
    LET y == 2 ^ n
    IN ((x + y - 1) \div y) * y

\* HGraph::resize
resize(h, new_size) ==
    LET new_size_power_2 == next_multiple_of_power_of_two(new_size, ResizeBit)
    IN IF h.max_capacity_ < new_size_power_2
       THEN [h EXCEPT
               !.labels_ = [i \in 0..(new_size_power_2 - 1) |->
                              IF i \in DOMAIN h.labels_ THEN h.labels_[i] ELSE 0],
               !.max_capacity_ = new_size_power_2]
       ELSE h

(****************************** builder ************************************)
\* modulus of the unsigned loop counter of add_one_point (scaled)
UIntMod == 1073741824
ToUnsigned(x) == x % UIntMod

InnerParam(ep, ef, allowed, radius) ==
    [ep |-> ep, ef |-> ef, allowed |-> allowed, radius |-> radius]

\* the codec add_one_point measures with
BuildCodes(h) == IF h.use_reorder_ THEN h.precise_codes ELSE h.base_codes

\* hgraph.cpp 741-744: for (auto j = max_level_ - 1; j > level; --j)
RECURSIVE DescendRoutes(_, _, _, _, _, _)
DescendRoutes(h, data, j, level, ep, tb) ==
    IF j > ToUnsigned(level)
    THEN LET result == search_one_graph(DefaultSearchMode, data,
                           h.route_graphs_[j + 1], BuildCodes(h), h.labels_,
                           InnerParam(ep, 1, NoFilter, 0), tb)
         IN DescendRoutes(h, data, ToUnsigned(j - 1), level,
                          Top(result.res, tb)[2], tb)
    ELSE ep

\* the searches of hgraph.cpp 741-744 in the order they are made: the
\* route graph, the entry point handed in and the top of the result
RECURSIVE DescentTrace(_, _, _, _, _, _)
DescentFrom(h, data, j, level, ep, top, tb) ==
    <<[layer |-> j, ep |-> ep, top |-> top]>>
        \o DescentTrace(h, data, ToUnsigned(j - 1), level, top, tb)

DescentTrace(h, data, j, level, ep, tb) ==
    IF j > ToUnsigned(level)
    THEN DescentFrom(h, data, j, level, ep,
             Top(search_one_graph(DefaultSearchMode, data,
                     h.route_graphs_[j + 1], BuildCodes(h), h.labels_,
                     InnerParam(ep, 1, NoFilter, 0), tb).res, tb)[2],
             tb)
    ELSE <<>>

\* mutant: a route graph is made with the degree of the bottom graph
RouteMaxDegree_full == MaxDegree

\* HGraph::generate_one_route_graph: bottom_graph_->MaximumDegree() / 2
RouteMaxDegree == MaxDegree \div 2

RouteLinked(h, j, g, inner_id, ep, mc) ==
    [h |-> [h EXCEPT !.route_graphs_[j + 1] =
               IncreaseTotalCount(
                   IF g.total # 0 THEN mc.graph
                   ELSE InsertNeighborsById(g, inner_id, <<>>))],
     ep |-> IF g.total # 0 THEN mc.ep ELSE ep]

\* hgraph.cpp 748-756: one pass of the loop, for route graph j
ConnectRoute(h, data, j, inner_id, ep, tb) ==
    RouteLinked(h, j, h.route_graphs_[j + 1], inner_id, ep,
        mutually_connect_new_element(inner_id,
            search_one_graph(DefaultSearchMode, data, h.route_graphs_[j + 1],
                BuildCodes(h), h.labels_,
                InnerParam(ep, EfConstruct, NoFilter, 0), tb).res,
            h.route_graphs_[j + 1], BuildCodes(h), RouteMaxDegree, tb))

\* mutant: the loop over the route graphs stops above route graph 0
RouteLoopDone_early(j) == j < 1

\* hgraph.cpp 747: for (auto j = level; j >= 0; --j)
RouteLoopDone(j) == j < 0

\* hgraph.cpp 747-756: link the point into route graphs level .. 0
RECURSIVE ConnectRoutes(_, _, _, _, _, _)
ConnectRoutesOn(r, data, j, inner_id, tb) ==
    ConnectRoutes(r.h, data, j, inner_id, r.ep, tb)

ConnectRoutes(h, data, j, inner_id, ep, tb) ==
    IF RouteLoopDone(j) THEN [h |-> h, ep |-> ep]
    ELSE ConnectRoutesOn(ConnectRoute(h, data, j, inner_id, ep, tb),
                         data, j - 1, inner_id, tb)

\* hgraph.cpp 758-763: link the point into the bottom graph
LinkBottom(h, inner_id, result, tb) ==
    [h EXCEPT !.bottom_graph_ = IncreaseTotalCount(
        IF @.total # 0
        THEN mutually_connect_new_element(inner_id, result, @, BuildCodes(h),
                                          MaxDegree, tb).graph
        ELSE InsertNeighborsById(@, inner_id, <<>>))]

ConnectBottom(r, data, inner_id, tb) ==
    LinkBottom(r.h, inner_id,
               search_one_graph(DefaultSearchMode, data, r.h.bottom_graph_,
                   BuildCodes(r.h), r.h.labels_,
                   InnerParam(r.ep, EfConstruct, NoFilter, 0), tb).res,
               tb)

\* HGraph::add_one_point
add_one_point(h, data, level, inner_id, tb) ==
    ConnectBottom(
        ConnectRoutes(h, data, level, inner_id,
            DescendRoutes(h, data, ToUnsigned(h.max_level_ - 1), level,
                          h.entry_point_id_, tb),
            tb),
        data, inner_id, tb)

\* hgraph.cpp 335-337: route_graphs_.emplace_back for j = max_level_ .. level
ExtendRoutes(routes, max_level, level) ==
    routes \o [j \in 1..Max(0, level + 1 - max_level) |-> EmptyGraph]

\* hgraph.cpp 326-328: the label of the point, under the label lock
AssignLabel(h, label, inner_id) ==
    [h EXCEPT
       !.label_lookup_ =
           [l \in (DOMAIN h.label_lookup_) \cup {label} |->
               IF l = label THEN inner_id ELSE h.label_lookup_[l]],
       !.labels_[inner_id] = label]

\* mutant: a point that draws the top level again is promoted too
Promotes_on_equal(h, level) ==
    level >= h.max_level_ - 1 \/ h.bottom_graph_.total = 0

\* hgraph.cpp 332: the point takes the promotion path
Promotes(h, level) == level >= h.max_level_ \/ h.bottom_graph_.total = 0

\* hgraph.cpp 333-338: new route graphs and max_level_, before the linking
Promote(h, level) ==
    IF Promotes(h, level)
    THEN [h EXCEPT !.route_graphs_ = ExtendRoutes(@, h.max_level_, level),
                   !.max_level_ = level + 1]
    ELSE h

\* hgraph.cpp 340: the entry point, after the linking
SetEntry(h, promoted, inner_id) ==
    IF promoted THEN [h EXCEPT !.entry_point_id_ = inner_id] ELSE h

BuildLinked(h, promoted, data, level, inner_id, tb) ==
    SetEntry(add_one_point(Promote(h, level), data, level, inner_id, tb),
             promoted, inner_id)

\* hgraph.cpp 321-347: one iteration of build_func
BuildOne(h, label, data, level, inner_id, tb) ==
    BuildLinked(AssignLabel(h, label, inner_id),
                Promotes(h, level), data, level, inner_id, tb)

RECURSIVE BuildFunc(_, _, _, _, _, _, _, _)
BuildFunc(h, ids, datas, levels, cur_count, i, end, tb) ==
    IF i >= end THEN h
    ELSE BuildFunc(BuildOne(h, ids[i + 1], datas[i + 1], levels[i + 1],
                            i + cur_count, tb),
                   ids, datas, levels, cur_count, i + 1, end, tb)

\* mutant: every run numbers its points from 0
CurCount_zero(h) == 0

\* hgraph.cpp 314: cur_count = this->bottom_graph_->TotalCount()
CurCount(h) == h.bottom_graph_.total

\* HGraph::hnsw_add without a build pool
hnsw_add(h, ids, datas, levels, tb) ==
    LET total == Len(ids)
        cur_count == CurCount(h)
        h1 == resize(h, total + cur_count)
    IN BuildFunc(h1, ids, datas, levels, cur_count, 0, total, tb)

(******************************* Add ***************************************)
\* mutant: labels seen earlier in the batch are not remembered
RECURSIVE DuplicatePositions_index_only(_, _, _, _)
DuplicatePositions_index_only(lookup, labels, i, temp_labels) ==
    IF i >= Len(labels) THEN <<>>
    ELSE IF labels[i + 1] \in DOMAIN lookup
         THEN <<i>> \o DuplicatePositions_index_only(lookup, labels, i + 1, {})
         ELSE DuplicatePositions_index_only(lookup, labels, i + 1, {})

\* hgraph.cpp 844-851: the 0-based positions of the inputs whose label is in
\* the index or was seen earlier in the batch
RECURSIVE DuplicatePositions(_, _, _, _)
DuplicatePositions(lookup, labels, i, temp_labels) ==
    IF i >= Len(labels) THEN <<>>
    ELSE IF labels[i + 1] \in DOMAIN lookup \/ labels[i + 1] \in temp_labels
         THEN <<i>> \o DuplicatePositions(lookup, labels, i + 1, temp_labels)
         ELSE DuplicatePositions(lookup, labels, i + 1,
                                 temp_labels \cup {labels[i + 1]})

\* hgraph.cpp 858-872: the runs <<first position, length>> between failures
RECURSIVE SplitRuns(_, _)
SplitRuns(start, ends) ==
    IF ends = <<>> THEN <<>>
    ELSE LET end == Head(ends)
         IN IF end - start = 1
            THEN SplitRuns(end, Tail(ends))
            ELSE <<<<start + 1, end - start - 1>>>> \o SplitRuns(end, Tail(ends))

\* mutant: the failed positions are returned as they were collected
split_keeps_positions(h, labels) ==
    LET count == Len(labels)
        failed_ids == Append(DuplicatePositions(h.label_lookup_, labels, 0, {}),
                             count)
    IN IF Len(failed_ids) = 1
       THEN [runs |-> <<<<0, count>>>>, failed_ids |-> failed_ids]
       ELSE [runs |-> SplitRuns(0 - 1, failed_ids),
             failed_ids |-> SubSeq(failed_ids, 1, Len(failed_ids) - 1)]

\* HGraph::split_dataset_by_duplicate_label: the runs to insert and the
\* contents of failed_ids when it returns
split_dataset_by_duplicate_label(h, labels) ==
    LET count == Len(labels)
        failed_ids == Append(DuplicatePositions(h.label_lookup_, labels, 0, {}),
                             count)
    IN IF Len(failed_ids) = 1
       THEN [runs |-> <<<<0, count>>>>, failed_ids |-> failed_ids]
       ELSE [runs |-> SplitRuns(0 - 1, failed_ids),
             failed_ids |-> [i \in 1..(Len(failed_ids) - 1) |->
                                labels[failed_ids[i] + 1]]]

\* Train + BatchInsertVector of one run into a codec
BatchInsertVector(codes, vecs) ==
    LET n == Cardinality(DOMAIN codes)
    IN [i \in 0..(n + Len(vecs) - 1) |->
           IF i < n THEN codes[i] ELSE vecs[i - n + 1]]

\* hgraph.cpp 107-111: the codes of a run go into the codecs
InsertCodes(h, vecs) ==
    [h EXCEPT
       !.base_codes = BatchInsertVector(@,
           [i \in 1..Len(vecs) |-> BaseEncode(h.use_reorder_, vecs[i])]),
       !.precise_codes = IF h.use_reorder_
                         THEN BatchInsertVector(@, vecs) ELSE @]

\* hgraph.cpp 99-115: insert the runs one after the other
RECURSIVE AddRuns(_, _, _, _)
AddRuns(h, data, runs, tb) ==
    IF runs = <<>> THEN h
    ELSE
      LET first == Head(runs)[1]
          len == Head(runs)[2]
          ids == SubSeq(data.ids, first + 1, first + len)
          vecs == SubSeq(data.vecs, first + 1, first + len)
          levels == SubSeq(data.levels, first + 1, first + len)
          h1 == InsertCodes(h, vecs)
      IN AddRuns(hnsw_add(h1, ids, vecs, levels, tb), data, Tail(runs), tb)

Response(op, status, args) ==
    [op |-> op, status |-> status, args |-> args,
     ids |-> <<>>, dists |-> <<>>, failed |-> <<>>, before |-> {},
     found |-> {}, reordered |-> {}]

\* what the response of Add records of its input
AddArgs(data) == [dim |-> data.dim, null |-> data.null, ids |-> data.ids]

\* HGraph::Add: the index after the call and the response
Add(h, data, tb) ==
    IF data.dim # Dim \/ data.null
    THEN [h |-> h, ret |-> Response("Add", "INVALID_ARGUMENT", AddArgs(data))]
    ELSE LET split == split_dataset_by_duplicate_label(h, data.ids)
         IN [h |-> AddRuns(h, data, split.runs, tb),
             ret |-> [Response("Add", "ok", AddArgs(data)) EXCEPT
                        !.failed = split.failed_ids]]

(***************************** queries *************************************)
\* HGraph::GetNumElements
GetNumElements(h) == h.bottom_graph_.total

\* What a search that starts at an entry point no insert has written can do:
\* the codec, the visited array and the graph are read at an id that holds
\* no point, so the call faults or goes on with whatever it read.
UBOutcomes ==
    {[fault |-> TRUE, heap |-> {}],
     [fault |-> FALSE, heap |-> {}],
     [fault |-> FALSE, heap |-> {<<0, entry_point_id_>>}]}

ReadsUnwritten(h) ==
    \/ h.entry_point_id_ \notin DOMAIN h.base_codes
    \/ h.use_reorder_ /\ h.entry_point_id_ \notin DOMAIN h.precise_codes

\* hgraph.cpp 148-154 / 499-505: descend the route graphs with ef = 1
RECURSIVE RouteDescent(_, _, _, _, _)
RouteDescent(h, vec, i, ep, tb) ==
    IF i < 0 THEN ep
    ELSE LET result == search_one_graph(DefaultSearchMode, vec,
                           h.route_graphs_[i + 1], h.base_codes, h.labels_,
                           InnerParam(ep, 1, NoFilter, 0), tb)
         IN RouteDescent(h, vec, i - 1, Top(result.res, tb)[2], tb)

\* the route descent followed by the search of the bottom graph
BottomSearch(h, vec, ef, allowed, radius, tb, ub) ==
    IF ReadsUnwritten(h) THEN ub.heap
    ELSE LET ep == RouteDescent(h, vec, Len(h.route_graphs_) - 1,
                                h.entry_point_id_, tb)
         IN search_one_graph(DefaultSearchMode, vec, h.bottom_graph_,
                h.base_codes, h.labels_,
                InnerParam(ep, ef, allowed, radius), tb).res

\* the reorder step of a query
QueryReorder(h, vec, heap, k, tb) ==
    IF h.use_reorder_ /\ ~ReadsUnwritten(h)
    THEN reorder(vec, h.precise_codes, heap, k, tb)
    ELSE heap

\* mutant: the result is not cut down to k
Trim_nothing(heap, k, tb) == heap

\* while (search_result.size() > k) search_result.pop()
RECURSIVE Trim(_, _, _)
Trim(heap, k, tb) ==
    IF Cardinality(heap) > ToUnsigned(k) THEN Trim(Pop(heap, tb), k, tb)
    ELSE heap

(*************************** BasicSearcher *********************************)
\* is_id_allowed->CheckValid(id), or true for a null filter
CheckValid(allowed, id) ==
    \/ ~allowed.on
    \/ id \in allowed.admit

\* mutant: the entry point is not marked in the visited list
SetEp_skipped(vl, ep) == vl

\* basic_searcher.cpp 113: vl->Set(ep)
SetEp(vl, ep) == vl \cup {ep}

\* basic_searcher.cpp 42-44: neighbors[i] is read for every
\* i < prefetch_jump_visit_size_, whatever the length of the list
PrefetchOverread(neighbors, prefetch_jump_visit_size_) ==
    Len(neighbors) < prefetch_jump_visit_size_

\* BasicSearcher::visit, lines 46-56: the neighbors not yet in the visited
\* list, in list order, each set as it is recorded
RECURSIVE visit(_, _)
visit(neighbors, vl) ==
    IF neighbors = <<>> THEN <<>>
    ELSE IF Head(neighbors) \in vl
         THEN visit(Tail(neighbors), vl)
         ELSE <<Head(neighbors)>> \o
              visit(Tail(neighbors), vl \cup {Head(neighbors)})

\* basic_searcher.cpp 134-156: the distances of the recorded ids, one by one
RECURSIVE BasicRelax(_, _, _, _, _, _, _)
BasicRelax(mode, query, codes, param, tb, st, ids) ==
    IF ids = <<>> THEN st
    ELSE
      LET n == Head(ids)
          dist == Query(query, codes, n)
      IN IF \/ Cardinality(st.res) < param.ef
            \/ st.lb > dist
            \/ (mode = RANGE_SEARCH_MODE /\ dist <= param.radius)
         THEN
           LET res1 == IF CheckValid(param.allowed, n)
                       THEN st.res \cup {<<dist, n>>} ELSE st.res
               res2 == IF mode = KNN_SEARCH_MODE /\ Cardinality(res1) > param.ef
                       THEN Pop(res1, tb) ELSE res1
           IN BasicRelax(mode, query, codes, param, tb,
                  Logged([st EXCEPT
                             !.cand = @ \cup {<<0 - dist, n>>},
                             !.res = res2,
                             !.lb = IF res2 # {} THEN Top(res2, tb)[1] ELSE @,
                             !.queried = @ \o <<n>>]),
                  Tail(ids))
         ELSE BasicRelax(mode, query, codes, param, tb,
                  Logged([st EXCEPT !.queried = @ \o <<n>>]), Tail(ids))

\* basic_searcher.cpp 115-157: the best-first loop; ub says whether an
\* overread of the neighbor list faults
RECURSIVE BasicLoop(_, _, _, _, _, _, _, _)
BasicExpand(mode, query, graph, codes, param, tb, ub, st, cur, tbv) ==
    BasicLoop(mode, query, graph, codes, param, tb, ub,
        BasicRelax(mode, query, codes, param, tb,
            [st EXCEPT !.cand = @ \ {cur}, !.vis = @ \cup Range(tbv),
                       !.overread = @ \/ PrefetchOverread(
                           GetNeighbors(graph, cur[2]),
                           param.prefetch_jump_visit_size_)],
            tbv))

BasicLoop(mode, query, graph, codes, param, tb, ub, st) ==
    IF st.cand = {} THEN st
    ELSE IF /\ mode = KNN_SEARCH_MODE
            /\ (0 - Top(st.cand, tb)[1]) > st.lb
            /\ Cardinality(st.res) = param.ef
         THEN st
    ELSE IF /\ ub
            /\ PrefetchOverread(GetNeighbors(graph, Top(st.cand, tb)[2]),
                                param.prefetch_jump_visit_size_)
         THEN [st EXCEPT !.fault = TRUE, !.overread = TRUE]
    ELSE BasicExpand(mode, query, graph, codes, param, tb, ub, st,
             Top(st.cand, tb),
             visit(GetNeighbors(graph, Top(st.cand, tb)[2]), st.vis))

\* mutant: top_candidates is returned as the loop left it
BasicReturn_untrimmed(mode, param, heap, tb) == heap

\* basic_searcher.cpp 159-173: what is left of top_candidates on return
BasicReturn(mode, param, heap, tb) ==
    IF mode = KNN_SEARCH_MODE THEN Trim(heap, param.topk, tb)
    ELSE {x \in (IF param.range_search_limit_size > 0
                 THEN Trim(heap, param.range_search_limit_size, tb)
                 ELSE heap) : x[1] <= param.radius}

\* basic_searcher.cpp 102-113: the state before the loop
BasicStart(mode, query, codes, vl, param) ==
    [cand |-> {<<0 - Query(query, codes, param.ep), param.ep>>},
     res |-> IF /\ CheckValid(param.allowed, param.ep)
                /\ ~(mode = RANGE_SEARCH_MODE
                       /\ Query(query, codes, param.ep) > param.radius)
             THEN {<<Query(query, codes, param.ep), param.ep>>} ELSE {},
     lb |-> IF CheckValid(param.allowed, param.ep)
            THEN Query(query, codes, param.ep) ELSE FloatMax,
     vis |-> SetEp(vl, param.ep),
     queried |-> <<param.ep>>,
     log |-> <<>>,
     beam |-> {},
     overread |-> FALSE,
     fault |-> FALSE]

\* beam keeps top_candidates as the loop left it
BasicFinish(mode, param, st, tb) ==
    [st EXCEPT !.res = IF st.fault THEN {} ELSE BasicReturn(mode, param, @, tb),
               !.beam = st.res]

\* BasicSearcher::search_impl<mode>
search_impl(mode, query, graph, codes, vl, param, tb, ub) ==
    BasicFinish(mode, param,
        BasicLoop(mode, query, graph, codes, param, tb, ub,
                  BasicStart(mode, query, codes, vl, param)),
        tb)

\* BasicSearcher::Search
Search(query, graph, codes, vl, param, tb, ub) ==
    IF param.search_mode = KNN_SEARCH_MODE
    THEN search_impl(KNN_SEARCH_MODE, query, graph, codes, vl, param, tb, ub)
    ELSE search_impl(RANGE_SEARCH_MODE, query, graph, codes, vl, param, tb, ub)

(************************ responses of the searches ************************)
\* mutant: dists and ids are filled from the front
Emit_from_front(h, resp, heap, tb) ==
    LET desc == Drain(heap, tb)
    IN IF \E i \in 1..Len(desc) : desc[i][2] \notin DOMAIN h.labels_
       THEN [resp EXCEPT !.status = "fault"]
       ELSE [resp EXCEPT
               !.dists = [i \in 1..Len(desc) |-> desc[i][1]],
               !.ids = [i \in 1..Len(desc) |-> h.labels_[desc[i][2]]]]

\* hgraph.cpp 195-203 / 541-549: fill dists and ids from the back
Emit(h, resp, heap, tb) ==
    LET asc == Ascending(heap, tb)
    IN IF \E i \in 1..Len(asc) : asc[i][2] \notin DOMAIN h.labels_
       THEN [resp EXCEPT !.status = "fault"]
       ELSE [resp EXCEPT
               !.dists = [i \in 1..Len(asc) |-> asc[i][1]],
               !.ids = [i \in 1..Len(asc) |-> h.labels_[asc[i][2]]]]

\* mutant: k is not checked
KnnCheck_without_k(q, k) == q.dim = Dim /\ q.n = 1

\* the argument checks of KnnSearch, in order
KnnCheck(q, k) == q.dim = Dim /\ k > 0 /\ q.n = 1

\* HGraph::KnnSearch
KnnSearch(h, q, k0, ef_search, filter, tb, ub) ==
    LET args == [q |-> q, k |-> k0, ef |-> ef_search, filter |-> filter]
        resp == Response("KnnSearch", "ok", args)
    IN IF ~KnnCheck(q, k0) THEN [resp EXCEPT !.status = "INVALID_ARGUMENT"]
       ELSE IF ReadsUnwritten(h) /\ ub.fault THEN [resp EXCEPT !.status = "fault"]
       ELSE
         LET k == Min(k0, GetNumElements(h))
             found == BottomSearch(h, q.vec, ef_search, filter, 0, tb, ub)
             reordered == QueryReorder(h, q.vec, found, k, tb)
             search_result == Trim(reordered, k, tb)
             seen == [resp EXCEPT !.found = found, !.reordered = reordered]
         IN IF search_result = {} THEN seen
            ELSE Emit(h, seen, search_result, tb)

\* mutant: the limit removes nothing
RangeTrim_keeps_all(heap, limited_size, tb) == heap

\* hgraph.cpp 521-525: the limit trim of RangeSearch
RangeTrim(heap, limited_size, tb) ==
    IF limited_size > 0 THEN Trim(heap, limited_size, tb) ELSE heap

\* the argument checks of RangeSearch, in order
RangeCheck(q, radius, limited_size) ==
    q.dim = Dim /\ radius >= 0 /\ q.n = 1 /\ limited_size # 0

\* HGraph::RangeSearch
RangeSearch(h, q, radius, ef_search, filter, limited_size, tb, ub) ==
    LET args == [q |-> q, radius |-> radius, ef |-> ef_search,
                 filter |-> filter, limit |-> limited_size]
        resp == Response("RangeSearch", "ok", args)
    IN IF ~RangeCheck(q, radius, limited_size)
       THEN [resp EXCEPT !.status = "INVALID_ARGUMENT"]
       ELSE IF ReadsUnwritten(h) /\ ub.fault THEN [resp EXCEPT !.status = "fault"]
       ELSE
         LET found == BottomSearch(h, q.vec, Max(ef_search, limited_size),
                                   filter, radius, tb, ub)
             reordered == QueryReorder(h, q.vec, found, limited_size, tb)
             search_result == RangeTrim(reordered, limited_size, tb)
             seen == [resp EXCEPT !.found = found, !.reordered = reordered]
         IN Emit(h, seen, search_result, tb)

\* HGraph::CalculateDistanceById
CalculateDistanceById(h, vector, id) ==
    LET flat == IF h.use_reorder_ THEN h.precise_codes ELSE h.base_codes
        resp == Response("CalculateDistanceById", "ok",
                         [vec |-> vector, id |-> id])
    IN IF id \notin DOMAIN h.label_lookup_
       THEN [resp EXCEPT !.status = "INVALID_ARGUMENT"]
       ELSE [resp EXCEPT !.dists = <<Query(vector, flat, h.label_lookup_[id])>>]

(*************************** serialization *********************************)
\* A stream is a sequence of integers, one per WriteObj.  Reading at a
\* position past its end is a failed read.
SetToSeq(S) ==
    LET RECURSIVE Asc(_)
        Asc(X) == IF X = {} THEN <<>>
                  ELSE LET m == CHOOSE x \in X : \A y \in X : x <= y
                       IN <<m>> \o Asc(X \ {m})
    IN Asc(S)

RECURSIVE Concat(_)
Concat(ss) == IF ss = <<>> THEN <<>> ELSE Head(ss) \o Concat(Tail(ss))

\* hgraph.cpp 560-567: the scalar members in the order they are written
SerializeOrder ==
    <<"use_reorder_", "dim_", "metric_", "max_level_", "entry_point_id_",
      "ef_construct_", "mult_", "max_capacity_">>

\* mutant: max_level_ and entry_point_id_ are read in the other order
DeserializeOrder_swapped ==
    <<"use_reorder_", "dim_", "metric_", "entry_point_id_", "max_level_",
      "ef_construct_", "mult_", "max_capacity_">>

\* hgraph.cpp 620-627: the scalar members in the order they are read
DeserializeOrder ==
    <<"use_reorder_", "dim_", "metric_", "max_level_", "entry_point_id_",
      "ef_construct_", "mult_", "max_capacity_">>

\* StreamWriter::WriteObj of one scalar member
MemberValue(h, f) ==
    CASE f = "use_reorder_" -> IF h.use_reorder_ THEN 1 ELSE 0
      [] f = "dim_" -> Dim
      [] f = "max_level_" -> h.max_level_
      [] f = "entry_point_id_" -> h.entry_point_id_
      [] f = "ef_construct_" -> EfConstruct
      [] f = "max_capacity_" -> h.max_capacity_
      [] OTHER -> 0

\* StreamReader::ReadObj into one scalar member
SetMember(h, f, v) ==
    CASE f = "use_reorder_" -> [h EXCEPT !.use_reorder_ = (v = 1)]
      [] f = "max_level_" -> [h EXCEPT !.max_level_ = v]
      [] f = "entry_point_id_" -> [h EXCEPT !.entry_point_id_ = v]
      [] f = "max_capacity_" -> [h EXCEPT !.max_capacity_ = v]
      [] OTHER -> h

\* StreamWriter::WriteVector: the length, then the elements
WriteVector(v) ==
    <<Cardinality(DOMAIN v)>> \o [i \in 1..Cardinality(DOMAIN v) |-> v[i - 1]]

\* hgraph.cpp 570-576: the size, then every (label, inner id) pair
WriteLookup(lookup) ==
    LET keys == SetToSeq(DOMAIN lookup)
    IN <<Len(keys)>> \o
       Concat([i \in 1..Len(keys) |-> <<keys[i], lookup[keys[i]]>>])

\* HGraph::serialize_basic_info
serialize_basic_info(h) ==
    [i \in 1..Len(SerializeOrder) |-> MemberValue(h, SerializeOrder[i])]
      \o WriteVector(h.labels_) \o WriteLookup(h.label_lookup_)

\* FlattenInterface::Serialize: the count, then the codes
CodecSerialize(codes) == WriteVector(codes)

\* GraphInterface::Serialize: TotalCount, the number of lists, then every
\* list as id, length, neighbors
GraphSerialize(graph) ==
    LET ids == SetToSeq(DOMAIN graph.nbrs)
    IN <<graph.total, Len(ids)>> \o
       Concat([i \in 1..Len(ids) |->
                  <<ids[i], Len(graph.nbrs[ids[i]])>> \o graph.nbrs[ids[i]]])

\* HGraph::Serialize(StreamWriter&)
Serialize(h) ==
    serialize_basic_info(h)
      \o CodecSerialize(h.base_codes)
      \o GraphSerialize(h.bottom_graph_)
      \o (IF h.use_reorder_ THEN CodecSerialize(h.precise_codes) ELSE <<>>)
      \o Concat([i \in 1..h.max_level_ |-> GraphSerialize(h.route_graphs_[i])])

\* a reader: the index being filled, the cursor, and whether every read so
\* far was inside the stream
Reader(h, pos, ok) == [h |-> h, pos |-> pos, ok |-> ok]
Failed(r) == [r EXCEPT !.ok = FALSE]
Has(s, r, n) == r.ok /\ r.pos + n - 1 <= Len(s)

\* hgraph.cpp 620-627
RECURSIVE ReadMembers(_, _, _, _)
ReadMembers(s, r, order, i) ==
    IF i > Len(order) THEN r
    ELSE IF ~Has(s, r, 1) THEN Failed(r)
    ELSE ReadMembers(s, Reader(SetMember(r.h, order[i], s[r.pos]),
                               r.pos + 1, TRUE),
                     order, i + 1)

\* StreamReader::ReadVector into labels_
ReadLabels(s, r) ==
    IF ~Has(s, r, 1) THEN Failed(r)
    ELSE IF ~Has(s, r, 1 + s[r.pos]) THEN Failed(r)
    ELSE Reader([r.h EXCEPT !.labels_ =
                    [i \in 0..(s[r.pos] - 1) |-> s[r.pos + 1 + i]]],
                r.pos + 1 + s[r.pos], TRUE)

\* hgraph.cpp 632-638: emplace the pairs one by one
RECURSIVE ReadPairs(_, _, _)
ReadPairs(s, r, n) ==
    IF n = 0 THEN r
    ELSE IF ~Has(s, r, 2) THEN Failed(r)
    ELSE ReadPairs(s,
             Reader([r.h EXCEPT !.label_lookup_ =
                        IF s[r.pos] \in DOMAIN @ THEN @
                        ELSE [l \in (DOMAIN @) \cup {s[r.pos]} |->
                                 IF l = s[r.pos] THEN s[r.pos + 1] ELSE @[l]]],
                    r.pos + 2, TRUE),
             n - 1)

ReadLookup(s, r) ==
    IF ~Has(s, r, 1) THEN Failed(r)
    ELSE ReadPairs(s, Reader(r.h, r.pos + 1, TRUE), s[r.pos])

\* HGraph::deserialize_basic_info
deserialize_basic_info(s, r) ==
    ReadLookup(s, ReadLabels(s, ReadMembers(s, r, DeserializeOrder, 1)))

\* FlattenInterface::Deserialize: the codes read at the cursor
CodecAt(s, pos) == [i \in 0..(s[pos] - 1) |-> s[pos + 1 + i]]
CodecFits(s, r) == Has(s, r, 1) /\ Has(s, r, 1 + s[r.pos])

ReadBaseCodes(s, r) ==
    IF ~CodecFits(s, r) THEN Failed(r)
    ELSE Reader([r.h EXCEPT !.base_codes = CodecAt(s, r.pos)],
                r.pos + 1 + s[r.pos], TRUE)

ReadPreciseCodes(s, r) ==
    IF ~r.ok \/ ~r.h.use_reorder_ THEN r
    ELSE IF ~CodecFits(s, r) THEN Failed(r)
    ELSE Reader([r.h EXCEPT !.precise_codes = CodecAt(s, r.pos)],
                r.pos + 1 + s[r.pos], TRUE)

\* GraphInterface::Deserialize: the lists are read one by one; g is
\* [graph, pos, ok]
RECURSIVE ReadLists(_, _, _)
ReadLists(s, g, n) ==
    IF n = 0 THEN g
    ELSE IF g.pos + 1 > Len(s) THEN [g EXCEPT !.ok = FALSE]
    ELSE IF g.pos + 1 + s[g.pos + 1] > Len(s) THEN [g EXCEPT !.ok = FALSE]
    ELSE ReadLists(s,
             [graph |-> InsertNeighborsById(g.graph, s[g.pos],
                            SubSeq(s, g.pos + 2, g.pos + 1 + s[g.pos + 1])),
              pos |-> g.pos + 2 + s[g.pos + 1], ok |-> TRUE],
             n - 1)

GraphDeserialize(s, pos) ==
    IF pos + 1 > Len(s) THEN [graph |-> EmptyGraph, pos |-> pos, ok |-> FALSE]
    ELSE ReadLists(s, [graph |-> [nbrs |-> <<>>, total |-> s[pos]],
                       pos |-> pos + 2, ok |-> TRUE],
                   s[pos + 1])

BottomRead(r, g) ==
    IF g.ok THEN Reader([r.h EXCEPT !.bottom_graph_ = g.graph], g.pos, TRUE)
    ELSE Failed(r)

ReadBottomGraph(s, r) ==
    IF ~r.ok THEN r ELSE BottomRead(r, GraphDeserialize(s, r.pos))

\* hgraph.cpp 604-606: one new route graph per level, appended
EmplaceRoutes(r) ==
    IF ~r.ok THEN r
    ELSE [r EXCEPT !.h.route_graphs_ =
             @ \o [i \in 1..r.h.max_level_ |-> EmptyGraph]]

RouteRead(r, g, i) ==
    IF g.ok THEN Reader([r.h EXCEPT !.route_graphs_[i] = g.graph], g.pos, TRUE)
    ELSE Failed(r)

\* hgraph.cpp 608-610
RECURSIVE ReadRoutes(_, _, _)
ReadRoutes(s, r, i) ==
    IF ~r.ok \/ i > r.h.max_level_ THEN r
    ELSE ReadRoutes(s, RouteRead(r, GraphDeserialize(s, r.pos), i), i + 1)

\* HGraph::Deserialize(StreamReader&): the index as far as it was filled,
\* and whether every read succeeded
Deserialize(h, s) ==
    ReadRoutes(s,
        EmplaceRoutes(
            ReadPreciseCodes(s,
                ReadBottomGraph(s,
                    ReadBaseCodes(s,
                        deserialize_basic_info(s, Reader(h, 1, TRUE)))))),
        1)

\* a BinarySet or the contents of a stream: blank is the EMPTY_HGRAPH
\* marker set (it holds BLANK_INDEX and no INDEX_HGRAPH entry)
Payload(blank, bytes) == [blank |-> blank, bytes |-> bytes]

\* HGraph::Serialize() const, to a BinarySet
SerializeBinarySet(h) ==
    IF GetNumElements(h) = 0 THEN Payload(TRUE, <<>>)
    ELSE Payload(FALSE, Serialize(h))

\* HGraph::Serialize(std::ostream&)
SerializeStream(h) == Payload(FALSE, Serialize(h))

\* mutant: a filled index is not turned away
DeserializeNotEmpty_never(h) == FALSE

\* if (this->GetNumElements() > 0)
DeserializeNotEmpty(h) == GetNumElements(h) > 0

Loaded(h, status) == [h |-> h, status |-> status]

\* What the memcpy of Deserialize(BinarySet) can lead to when it copies
\* from past the end of the buffer: the call faults, or goes on with the
\* bytes it found there and succeeds or fails on them.
OverreadOutcomes == {"fault", "ok", "READ_ERROR"}

BinaryLoaded(r, ub) == Loaded(r.h, IF r.ok THEN "ok" ELSE ub)

\* HGraph::Deserialize(const BinarySet&)
DeserializeBinarySet(h, binary_set, ub) ==
    IF DeserializeNotEmpty(h) THEN Loaded(h, "INDEX_NOT_EMPTY")
    ELSE IF binary_set.blank THEN Loaded(h, "ok")
    ELSE BinaryLoaded(Deserialize(h, binary_set.bytes), ub)

\* the reader throws std::runtime_error on a read past the end
ReaderLoaded(r) == Loaded(r.h, IF r.ok THEN "ok" ELSE "READ_ERROR")

\* HGraph::Deserialize(const ReaderSet&): a set without an INDEX_HGRAPH
\* reader yields a null reader, which is dereferenced
DeserializeReaderSet(h, reader_set) ==
    IF DeserializeNotEmpty(h) THEN Loaded(h, "INDEX_NOT_EMPTY")
    ELSE IF reader_set.blank THEN Loaded(h, "fault")
    ELSE ReaderLoaded(Deserialize(h, reader_set.bytes))

\* only std::bad_alloc is caught: the reader's std::runtime_error leaves
\* the call as an exception
StreamLoaded(r) == Loaded(r.h, IF r.ok THEN "ok" ELSE "runtime_error thrown")

\* HGraph::Deserialize(std::istream&)
DeserializeStream(h, in_stream) ==
    IF DeserializeNotEmpty(h) THEN Loaded(h, "INDEX_NOT_EMPTY")
    ELSE StreamLoaded(Deserialize(h, in_stream.bytes))

(**************************** state machine ********************************)
\* the HGraph object as a record
H == [use_reorder_ |-> use_reorder_, labels_ |-> labels_,
      label_lookup_ |-> label_lookup_, base_codes |-> base_codes,
      precise_codes |-> precise_codes, bottom_graph_ |-> bottom_graph_,
      route_graphs_ |-> route_graphs_, max_level_ |-> max_level_,
      entry_point_id_ |-> entry_point_id_, max_capacity_ |-> max_capacity_]

Store(h) ==
    /\ use_reorder_' = h.use_reorder_
    /\ labels_' = h.labels_
    /\ label_lookup_' = h.label_lookup_
    /\ base_codes' = h.base_codes
    /\ precise_codes' = h.precise_codes
    /\ bottom_graph_' = h.bottom_graph_
    /\ route_graphs_' = h.route_graphs_
    /\ max_level_' = h.max_level_
    /\ entry_point_id_' = h.entry_point_id_
    /\ max_capacity_' = h.max_capacity_

\* no response is waiting for the caller
NoResponse == [Response("none", "ok", <<>>) EXCEPT !.before = {}]

\* bottom_graph_->max_capacity_ handed to the first resize
BottomInitCapacity == 1

\* HGraph::HGraph
Constructed(use_reorder) ==
    resize([use_reorder_ |-> use_reorder, labels_ |-> <<>>, label_lookup_ |-> <<>>,
            base_codes |-> <<>>, precise_codes |-> <<>>,
            bottom_graph_ |-> EmptyGraph, route_graphs_ |-> <<>>,
            max_level_ |-> 0, entry_point_id_ |-> NoEntry,
            max_capacity_ |-> 0],
           BottomInitCapacity)

\* the caller holds no payload
NoPayload == [kind |-> "none", blank |-> FALSE, bytes |-> <<>>,
              from |-> Constructed(FALSE)]

\* no build worker and no query thread exists
NoThreads == [workers |-> <<>>]

\* no add_one_point call is under way
NoInsert == [active |-> FALSE, inner_id |-> 0, data |-> 0, level |-> 0,
             j |-> 0, ep |-> 0, descent |-> <<>>, promoted |-> FALSE,
             tb |-> 1]

Init ==
    /\ \E use_reorder \in BOOLEAN :
         LET h == Constructed(use_reorder)
         IN /\ use_reorder_ = h.use_reorder_
            /\ labels_ = h.labels_
            /\ label_lookup_ = h.label_lookup_
            /\ base_codes = h.base_codes
            /\ precise_codes = h.precise_codes
            /\ bottom_graph_ = h.bottom_graph_
            /\ route_graphs_ = h.route_graphs_
            /\ max_level_ = h.max_level_
            /\ entry_point_id_ = h.entry_point_id_
            /\ max_capacity_ = h.max_capacity_
    /\ ret = NoResponse
    /\ saved = NoPayload
    /\ in_flight = NoInsert
    /\ threads = NoThreads

(* inputs *)
\* which equal-distance entry a heap keeps on top: the larger inner id
TieBreaks == {1}
Filters == {NoFilter, Admit({}), Admit({1}), Admit(Labels \ {1})}
GoodQueries == {[dim |-> Dim, n |-> 1, vec |-> v] : v \in Vals}
BadQueries == {[dim |-> Dim + 1, n |-> 1, vec |-> 0],
               [dim |-> Dim, n |-> 0, vec |-> 0],
               [dim |-> Dim, n |-> 2, vec |-> 0]}
Radii == {0, 1}
Limits == {0 - 1, 1}

\* the batches of a label sequence: a rejected input carries the vector 0
\* and draws no level
BatchesOf(ids) ==
    LET dups == Range(DuplicatePositions(label_lookup_, ids, 0, {}))
        acc == {i \in 1..Len(ids) : (i - 1) \notin dups}
    IN {[dim |-> Dim, null |-> FALSE, ids |-> ids,
         vecs |-> [i \in 1..Len(ids) |-> IF i \in acc THEN f[i] ELSE 0],
         levels |-> [i \in 1..Len(ids) |-> IF i \in acc THEN g[i] ELSE 0 - 1]] :
           f \in [acc -> Vals], g \in [acc -> Draws]}

\* the label sequences offered to Add: at most MaxBatch inputs, at most one
\* more than the room left, and no more accepted inputs than the room left
LabelSeqs ==
    LET room == MaxPoints - GetNumElements(H)
    IN {s \in SeqsOf(Labels, 1, Min(MaxBatch, room + 1)) :
          Len(s) - Len(DuplicatePositions(label_lookup_, s, 0, {})) <= room}

BadBatches ==
    {[dim |-> Dim + 1, null |-> FALSE, ids |-> <<1>>, vecs |-> <<0>>,
      levels |-> <<0 - 1>>],
     [dim |-> Dim, null |-> TRUE, ids |-> <<1>>, vecs |-> <<0>>,
      levels |-> <<0 - 1>>]}

\* calls are synchronous: the caller issues one when it holds no response
Idle == ret = NoResponse

\* the outcomes that can differ in the current state
UBChoices ==
    IF ReadsUnwritten(H) THEN UBOutcomes
    ELSE {[fault |-> FALSE, heap |-> {}]}

\* the index and the response after an Add outcome r; tie-breaks are told
\* apart only when a point was inserted
AddReturns(r, tb) ==
    /\ GetNumElements(r.h) = GetNumElements(H) => tb = 1
    /\ Store(r.h)
    /\ ret' = [r.ret EXCEPT !.before = DOMAIN label_lookup_]
    /\ UNCHANGED aux

AddOp ==
    /\ Idle
    /\ \E data \in (UNION {BatchesOf(ids) : ids \in LabelSeqs}) \cup BadBatches,
          tb \in TieBreaks :
         AddReturns(Add(H, data, tb), tb)

KnnSearchOp ==
    /\ Idle
    /\ \E q \in GoodQueries \cup BadQueries, k \in (0 - 1)..(MaxPoints + 1),
          ef \in 1..MaxEf, filter \in Filters, tb \in TieBreaks,
          ub \in UBChoices :
         /\ q \in BadQueries \/ k <= 0 => ef = 1 /\ filter = NoFilter /\ tb = 1
         /\ ret' = KnnSearch(H, q, k, ef, filter, tb, ub)
    /\ UNCHANGED <<index, aux>>

RangeSearchOp ==
    /\ Idle
    /\ \E q \in GoodQueries \cup BadQueries, radius \in Radii \cup {0 - 1},
          ef \in 1..MaxEf, filter \in Filters, limit \in Limits \cup {0},
          tb \in TieBreaks, ub \in UBChoices :
         /\ q \in BadQueries \/ radius < 0 \/ limit = 0
              => ef = 1 /\ filter = NoFilter /\ tb = 1
         /\ ret' = RangeSearch(H, q, radius, ef, filter, limit, tb, ub)
    /\ UNCHANGED <<index, aux>>

CalculateDistanceByIdOp ==
    /\ Idle
    /\ \E v \in Vals, id \in Labels :
         ret' = CalculateDistanceById(H, v, id)
    /\ UNCHANGED <<index, aux>>

\* the caller takes the response of the call it made
TakeResponse ==
    /\ ~Idle
    /\ ret' = NoResponse
    /\ UNCHANGED <<index, aux>>

Next ==
    \/ AddOp
    \/ TakeResponse
    \/ KnnSearchOp
    \/ RangeSearchOp
    \/ CalculateDistanceByIdOp

Spec == Init /\ [][Next]_vars

(********************* serialize, reconstruct, load ************************)
SerializeVariants == {"BinarySet", "ostream"}
DeserializeVariants == {"BinarySet", "ReaderSet", "istream"}

\* Add of one vector under the next unused label, while nothing is saved
AddPointOp ==
    /\ Idle
    /\ saved.kind = "none"
    /\ GetNumElements(H) < MaxPoints
    /\ \E v \in Vals, level \in Draws :
         AddReturns(Add(H, [dim |-> Dim, null |-> FALSE,
                            ids |-> <<GetNumElements(H) + 1>>,
                            vecs |-> <<v>>, levels |-> <<level>>], 1), 1)

Saved(variant, payload) ==
    [kind |-> variant, blank |-> payload.blank, bytes |-> payload.bytes,
     from |-> H]

\* the caller serializes the index once and keeps the payload
SerializeOp ==
    /\ Idle
    /\ saved.kind = "none"
    /\ \E variant \in SerializeVariants :
         /\ saved' = Saved(variant, IF variant = "BinarySet"
                                    THEN SerializeBinarySet(H)
                                    ELSE SerializeStream(H))
         /\ ret' = Response("Serialize", "ok", [variant |-> variant])
    /\ UNCHANGED <<index, in_flight, threads>>

\* the caller constructs a second, empty index with the same parameters
RecreateOp ==
    /\ Idle
    /\ saved.kind # "none"
    /\ H = saved.from
    /\ GetNumElements(H) > 0
    /\ Store(Constructed(use_reorder_))
    /\ UNCHANGED <<ret, aux>>

DeserializeReturns(r, variant, cut) ==
    /\ Store(r.h)
    /\ ret' = [Response("Deserialize", r.status,
                        [variant |-> variant, cut |-> cut,
                         full |-> cut = Len(saved.bytes),
                         fresh |-> H = Constructed(use_reorder_)])
                 EXCEPT !.before = DOMAIN label_lookup_]
    /\ UNCHANGED aux

\* the index holds no point and is not as constructed: a Deserialize that
\* failed has written to it
LeftByFailedLoad(h) ==
    GetNumElements(h) = 0 /\ h # Constructed(h.use_reorder_)

\* the caller loads the payload, or a truncation of it, into the index it
\* serialized or into the second index, and loads the whole payload again
\* after a load that failed
DeserializeOp ==
    /\ Idle
    /\ saved.kind # "none"
    /\ H = saved.from \/ GetNumElements(H) = 0
    /\ \E variant \in DeserializeVariants, cut \in 0..Len(saved.bytes),
          ub \in OverreadOutcomes :
         /\ saved.blank => variant # "istream"
         /\ GetNumElements(H) > 0 \/ LeftByFailedLoad(H)
              => cut = Len(saved.bytes)
         /\ ~(variant = "BinarySet" /\ cut < Len(saved.bytes)
              /\ GetNumElements(H) = 0) => ub = "fault"
         /\ DeserializeReturns(
                CASE variant = "BinarySet" ->
                       DeserializeBinarySet(H,
                           Payload(saved.blank, SubSeq(saved.bytes, 1, cut)), ub)
                  [] variant = "ReaderSet" ->
                       DeserializeReaderSet(H,
                           Payload(saved.blank, SubSeq(saved.bytes, 1, cut)))
                  [] variant = "istream" ->
                       DeserializeStream(H,
                           Payload(FALSE, SubSeq(saved.bytes, 1, cut))),
                variant, cut)

\* the caller queries an index that holds no point: a fresh one, or one
\* left by a Deserialize that failed
QueryUnfilledOp ==
    /\ Idle
    /\ GetNumElements(H) = 0
    /\ \E q \in GoodQueries, range \in BOOLEAN, ub \in UBChoices :
         ret' = IF range
                THEN RangeSearch(H, q, 1, 1, NoFilter, 0 - 1, 1, ub)
                ELSE KnnSearch(H, q, 1, 1, NoFilter, 1, ub)
    /\ UNCHANGED <<index, aux>>

\* add_one_point indexes route_graphs_ up to max_level_ - 1 in its descent
\* (hgraph.cpp 741-744, skipped for level -1) and up to level in its route
\* loop (747-756)
RoutesOutOfRange(h, level) ==
    level >= 0 /\ Max(h.max_level_, level + 1) > Len(h.route_graphs_)

\* Add of one vector to an index a failed Deserialize has written to; an
\* access past the end of route_graphs_ is taken as a fault
AddAfterFailedLoadOp ==
    /\ Idle
    /\ LeftByFailedLoad(H)
    /\ \E v \in Vals, level \in Draws, label \in Labels :
         LET data == [dim |-> Dim, null |-> FALSE, ids |-> <<label>>,
                      vecs |-> <<v>>, levels |-> <<level>>]
         IN IF label \notin DOMAIN label_lookup_
               /\ RoutesOutOfRange(Promote(H, level), level)
            THEN /\ ret' = Response("Add", "fault", AddArgs(data))
                 /\ UNCHANGED <<index, aux>>
            ELSE AddReturns(Add(H, data, 1), 1)

NextSerial ==
    \/ AddAfterFailedLoadOp
    \/ QueryUnfilledOp
    \/ AddPointOp
    \/ SerializeOp
    \/ RecreateOp
    \/ DeserializeOp
    \/ TakeResponse

SpecSerial == Init /\ [][NextSerial]_vars


(************************ insertion, step by step **************************)
\* Add of one vector under the next unused label, up to the linking:
\* hgraph.cpp 99-115, 310-338 and the descent of add_one_point (741-744)
BeginInsert(h, v, level, inner_id) ==
    Promote(AssignLabel(resize(InsertCodes(h, <<v>>), inner_id + 1),
                        inner_id + 1, inner_id),
            level)

InFlight(h, promoted, v, level, inner_id, tb) ==
    [active |-> TRUE, inner_id |-> inner_id, data |-> v, level |-> level,
     j |-> level,
     ep |-> DescendRoutes(h, v, ToUnsigned(h.max_level_ - 1), level,
                          h.entry_point_id_, tb),
     descent |-> DescentTrace(h, v, ToUnsigned(h.max_level_ - 1), level,
                              h.entry_point_id_, tb),
     promoted |-> promoted, tb |-> tb]

\* which of two equal-distance heap entries is on top
BuildTieBreaks == {1, 0 - 1}

BeginInsertOp ==
    /\ Idle
    /\ ~in_flight.active
    /\ GetNumElements(H) < BuildPoints
    /\ \E v \in Vals, level \in BuildDraws, tb \in BuildTieBreaks :
         /\ GetNumElements(H) < 2 => tb = 1
         /\ Store(BeginInsert(H, v, level, GetNumElements(H)))
         /\ in_flight' = InFlight(BeginInsert(H, v, level, GetNumElements(H)),
                                  Promotes(H, level), v, level,
                                  GetNumElements(H), tb)
    /\ UNCHANGED <<ret, saved, threads>>

\* one pass of the loop of hgraph.cpp 747-756
RouteStep(f, r) == [f EXCEPT !.j = @ - 1, !.ep = r.ep]

LinkRouteReturns(r) ==
    /\ Store(r.h)
    /\ in_flight' = RouteStep(in_flight, r)

LinkRouteOp ==
    /\ in_flight.active
    /\ ~RouteLoopDone(in_flight.j)
    /\ LinkRouteReturns(ConnectRoute(H, in_flight.data, in_flight.j,
                                     in_flight.inner_id, in_flight.ep,
                                     in_flight.tb))
    /\ UNCHANGED <<ret, saved, threads>>

\* hgraph.cpp 757-764, 340 and the return of Add
LinkBottomOp ==
    /\ in_flight.active
    /\ RouteLoopDone(in_flight.j)
    /\ Store(SetEntry(ConnectBottom([h |-> H, ep |-> in_flight.ep],
                                    in_flight.data, in_flight.inner_id,
                                    in_flight.tb),
                      in_flight.promoted, in_flight.inner_id))
    /\ ret' = [Response("Add", "ok",
                   [dim |-> Dim, null |-> FALSE,
                    ids |-> <<in_flight.inner_id + 1>>])
                 EXCEPT !.before = DOMAIN label_lookup_ \ {in_flight.inner_id + 1}]
    /\ in_flight' = NoInsert
    /\ UNCHANGED <<saved, threads>>

NextBuild ==
    \/ BeginInsertOp
    \/ LinkRouteOp
    \/ LinkBottomOp
    \/ TakeResponse

SpecBuild == Init /\ [][NextBuild]_vars


(************************ the searchers on their own ***********************)
SearchIds == 0..(SearchNodes - 1)

\* the graphs handed to the searchers: node u may list its children
\* 2u+2 and 2u+1 and its parent, in this order; node 0 is the entry point
Parent(u) == (u - 1) \div 2

Candidates(u) ==
    SelectSeq(<<2 * u + 2, 2 * u + 1>>, LAMBDA v : v < SearchNodes) \o
    (IF u > 0 THEN <<Parent(u)>> ELSE <<>>)

\* the subsequences of s with at most m entries
RECURSIVE SubSeqs(_, _)
SubSeqs(s, m) ==
    IF s = <<>> \/ m = 0 THEN {<<>>}
    ELSE SubSeqs(Tail(s), m) \cup
         {<<Head(s)>> \o r : r \in SubSeqs(Tail(s), m - 1)}

\* the neighbor lists of nodes 0..n-1, as a sequence
RECURSIVE ListsUpTo(_)
ListsUpTo(n) ==
    IF n = 0 THEN {<<>>}
    ELSE {Append(s, l) : s \in ListsUpTo(n - 1),
                         l \in SubSeqs(Candidates(n - 1), MaxDegree)}

SearchGraphs ==
    {[nbrs |-> [u \in SearchIds |-> s[u + 1]], total |-> SearchNodes] :
        s \in ListsUpTo(SearchNodes)}

\* the stored codes: the larger the id, the smaller the code
SearchCodes ==
    [u \in SearchIds |-> (SearchNodes + 2) \div 2 - (u + 1) \div 2]

InitSearcher ==
    /\ use_reorder_ = FALSE
    /\ labels_ = [u \in SearchIds |-> u + 1]
    /\ label_lookup_ = [l \in 1..SearchNodes |-> l - 1]
    /\ base_codes = SearchCodes
    /\ precise_codes = <<>>
    /\ bottom_graph_ \in SearchGraphs
    /\ route_graphs_ = <<>>
    /\ max_level_ = 0
    /\ entry_point_id_ = 0
    /\ max_capacity_ = SearchNodes
    /\ ret = NoResponse
    /\ saved = NoPayload
    /\ in_flight = NoInsert
    /\ threads = NoThreads

SearcherVariants == {"search_one_graph", "BasicSearcher"}
SearchModes == {KNN_SEARCH_MODE, RANGE_SEARCH_MODE}
\* a null filter, and a filter that admits the odd inner ids
SearchFilters == {NoFilter, Admit({u \in SearchIds : u % 2 = 1})}
\* the filter of search_one_graph is asked with the label, inner id + 1
OnLabels(filter) == [filter EXCEPT !.admit = {u + 1 : u \in @}]

\* the InnerSearchParam of a BasicSearcher call
BasicParam(a) ==
    [ep |-> entry_point_id_, ef |-> a.ef, allowed |-> a.filter,
     radius |-> a.radius, topk |-> a.k, range_search_limit_size |-> 0 - 1,
     search_mode |-> a.mode,
     prefetch_jump_visit_size_ |-> a.prefetch]

\* popped_empty says whether the call popped a result heap that was empty
\* and overread whether it read a neighbor list past its end
SearcherOutcome(status, r, beam, popped_empty, overread) ==
    [status |-> status, heap |-> IF status = "ok" THEN r.res ELSE {},
     queried |-> r.queried, log |-> r.log, cand |-> r.cand, lb |-> r.lb,
     beam |-> beam, popped_empty |-> popped_empty, overread |-> overread]

\* hgraph.cpp 431-444: neighbors[i] is read for i < neighbors.size() only
HGraphOutcome(r, ub) ==
    SearcherOutcome(IF r.ub /\ ub THEN "fault" ELSE "ok", r, r.res, r.ub,
                    FALSE)

\* basic_searcher.cpp 108: the pop is made only when top_candidates is not
\* empty
BasicOutcome(r) ==
    SearcherOutcome(IF r.fault THEN "fault" ELSE "ok", r, r.beam, FALSE,
                    r.overread)

\* where a call may end through an error: in the allocation of the scratch
\* vectors (hgraph.cpp 385-387) or in the codec query of the entry point (389)
Raises == {"none", "alloc", "query"}

\* search_one_graph left through an error before the loop
RaisedOutcome(a) ==
    SearcherOutcome("error",
        [res |-> {}, queried |-> <<>>, log |-> <<>>, cand |-> {},
         lb |-> FloatMax],
        {}, FALSE, FALSE)

\* hgraph.cpp 374: search_one_graph takes one visited list from pool_;
\* BasicSearcher is handed its list by the caller
Acquired(a) == IF a.variant = "search_one_graph" THEN 1 ELSE 0

\* hgraph.cpp 471: the list goes back to pool_ in the statement before the
\* return, which a call that ends through an error does not reach
Released(a, status) ==
    IF a.variant = "search_one_graph" /\ status = "ok" THEN 1 ELSE 0

\* one call of a searcher on the graph, from the entry point
SearcherRun(a, ub) ==
    IF a.raise # "none" THEN RaisedOutcome(a)
    ELSE IF a.variant = "search_one_graph"
    THEN HGraphOutcome(search_one_graph(a.mode, a.q, bottom_graph_, base_codes,
                           labels_,
                           InnerParam(entry_point_id_, a.ef, OnLabels(a.filter),
                                      a.radius), a.tb), ub)
    ELSE BasicOutcome(Search(a.q, bottom_graph_, base_codes, {}, BasicParam(a),
                             a.tb, ub))

SearcherResponse(a, out) ==
    [op |-> "Search", status |-> out.status, args |-> a,
     heap |-> out.heap, queried |-> out.queried, log |-> out.log,
     cand |-> out.cand, lb |-> out.lb, beam |-> out.beam,
     popped_empty |-> out.popped_empty, overread |-> out.overread,
     acquired |-> Acquired(a), released |-> Released(a, out.status)]

SearcherArgs ==
    {a \in [variant : SearcherVariants, mode : SearchModes, q : SearchQueries,
            ef : 1..MaxSearchEf, k : 1..MaxTopk, tb : BuildTieBreaks,
            filter : SearchFilters, radius : {SearchRadius},
            prefetch : 0..MaxPrefetch, raise : Raises] :
        /\ a.raise # "none" =>
             /\ a.variant = "search_one_graph"
             /\ a.ef = 1 /\ a.tb = 1 /\ a.filter = NoFilter
        /\ a.variant = "search_one_graph" => a.k = 1 /\ a.prefetch = 0
        /\ a.mode = RANGE_SEARCH_MODE => a.k = 1}

\* a call that meets undefined behaviour either faults or goes on
SearcherCallOp ==
    /\ Idle
    /\ \E a \in SearcherArgs, ub \in BOOLEAN :
         /\ ub => SearcherRun(a, TRUE).status = "fault"
         /\ ret' = SearcherResponse(a, SearcherRun(a, ub))
    /\ UNCHANGED <<index, aux>>

NextSearcher ==
    \/ SearcherCallOp
    \/ TakeResponse

SpecSearcher == InitSearcher /\ [][NextSearcher]_vars


(******************************* claims ************************************)
\* the 1-based positions of a batch that Add must reject: the label is in
\* the index already, or an earlier input of the batch carries it
RejectedAt(before, ids) ==
    {i \in 1..Len(ids) :
        ids[i] \in before \/ \E j \in 1..(i - 1) : ids[j] = ids[i]}

\* a set of integers as an ascending sequence
RECURSIVE SortedSeq(_)
SortedSeq(S) ==
    IF S = {} THEN <<>>
    ELSE LET m == CHOOSE x \in S : \A y \in S : x <= y
         IN <<m>> \o SortedSeq(S \ {m})

AddSucceeded == ret.op = "Add" /\ ret.status = "ok"
AddRejected == RejectedAt(ret.before, ret.args.ids)

C2_OneEntryPerRejected ==
    AddSucceeded => Len(ret.failed) = Cardinality(AddRejected)

\* C3: labels and inner ids are in bijection (label_lookup_[labels_[i]] = i
\* for every inner id in use, labels_[label_lookup_[l]] = l for every label
\* in the map), and no step changes the inner id a label already maps to
C3_Bijection ==
    /\ \A l \in DOMAIN label_lookup_ :
         /\ label_lookup_[l] \in 0..(GetNumElements(H) - 1)
         /\ labels_[label_lookup_[l]] = l
    /\ \A i \in 0..(GetNumElements(H) - 1) :
         /\ labels_[i] \in DOMAIN label_lookup_
         /\ label_lookup_[labels_[i]] = i

C3_Stable ==
    \A l \in DOMAIN label_lookup_ :
        /\ l \in DOMAIN label_lookup_'
        /\ label_lookup_'[l] = label_lookup_[l]

KnnAnswered == ret.op = "KnnSearch" /\ ret.status = "ok"
RangeAnswered == ret.op = "RangeSearch" /\ ret.status = "ok"

\* C4: every entry RangeSearch returns has a reported distance within the
\* radius (the distances are integers, so radius + epsilon admits the same
\* entries as radius)
C4_WithinRadius ==
    RangeAnswered =>
        \A j \in 1..Len(ret.dists) : ret.dists[j] <= ret.args.radius

\* C5: KnnSearch returns at most min(k, N) results
C5_KBound ==
    KnnAnswered => Len(ret.ids) <= Min(ret.args.k, GetNumElements(H))

\* a search with ef_search > k on a reordering index that filled all k
\* places and left points out
C5_Witness ==
    /\ KnnAnswered
    /\ use_reorder_
    /\ ret.args.ef > ret.args.k
    /\ Len(ret.ids) = ret.args.k
    /\ ret.args.k < GetNumElements(H)

\* C6: with k above the number N of inserted points and no filter,
\* KnnSearch returns exactly N results
C6_AllPointsReturned ==
    KnnAnswered /\ ret.args.k > GetNumElements(H) /\ ~ret.args.filter.on =>
        Len(ret.ids) = GetNumElements(H)

\* C7: on an index without points, KnnSearch with valid arguments succeeds
\* and returns a dataset with Dim = 0
C7_EmptyIndexKnn ==
    /\ ret.op = "KnnSearch"
    /\ KnnCheck(ret.args.q, ret.args.k)
    /\ GetNumElements(H) = 0
    => ret.status = "ok" /\ ret.ids = <<>>

\* C8: every id KnnSearch returns under a filter is a label the filter
\* admits; a filter that admits no label yields an empty result
C8_FilterSound ==
    KnnAnswered /\ ret.args.filter.on =>
        \A j \in 1..Len(ret.ids) : ret.ids[j] \in ret.args.filter.admit

\* the filter rejects the label of the entry point, which is still searched
\* from, and an admitted point is returned
C8_Witness ==
    /\ KnnAnswered
    /\ ret.args.filter.on
    /\ GetNumElements(H) > 1
    /\ labels_[entry_point_id_] \notin ret.args.filter.admit
    /\ ret.ids # <<>>

\* the codec whose distances a query reports
ReportCodes == IF use_reorder_ THEN precise_codes ELSE base_codes

\* C9: KnnSearch emits ascending distances, and ids[j] is the label of the
\* point at distance dists[j]
C9_Ascending ==
    KnnAnswered =>
        /\ Len(ret.dists) = Len(ret.ids)
        /\ \A j \in 1..(Len(ret.dists) - 1) : ret.dists[j] <= ret.dists[j + 1]
        /\ \A j \in 1..Len(ret.ids) :
             /\ ret.ids[j] \in DOMAIN label_lookup_
             /\ ret.dists[j] = Query(ret.args.q.vec, ReportCodes,
                                     label_lookup_[ret.ids[j]])

\* two results at different distances
C9_Witness ==
    /\ KnnAnswered
    /\ Len(ret.ids) >= 2
    /\ ret.dists[1] < ret.dists[Len(ret.dists)]

\* C10: a query with an invalid argument returns INVALID_ARGUMENT and
\* leaves the index as it was
C10_Step ==
    /\ ( /\ ret'.op = "KnnSearch"
         /\ \/ ret'.args.q.dim # Dim
            \/ ret'.args.k <= 0
            \/ ret'.args.q.n # 1 )
       => ret'.status = "INVALID_ARGUMENT" /\ UNCHANGED index
    /\ ( /\ ret'.op = "RangeSearch"
         /\ \/ ret'.args.q.dim # Dim
            \/ ret'.args.radius < 0
            \/ ret'.args.limit = 0 )
       => ret'.status = "INVALID_ARGUMENT" /\ UNCHANGED index
    /\ ( /\ ret'.op = "CalculateDistanceById"
         /\ ret'.args.id \notin DOMAIN label_lookup_ )
       => ret'.status = "INVALID_ARGUMENT" /\ UNCHANGED index

C10_InvalidArgument == [][C10_Step]_vars

\* KnnSearch with k <= 0 on an index that holds points was refused
C10_Witness ==
    /\ ret.op = "KnnSearch"
    /\ ret.args.k <= 0
    /\ ret.status = "INVALID_ARGUMENT"
    /\ GetNumElements(H) > 0

(* RangeSearch limit *)
\* the candidates the bottom search of the answered RangeSearch collected,
\* each with the distance the response reports for it
RangeCollected ==
    LET found == BottomSearch(H, ret.args.q.vec,
                     Max(ret.args.ef, ret.args.limit), ret.args.filter,
                     ret.args.radius, 1, [fault |-> FALSE, heap |-> {}])
    IN {<<Query(ret.args.q.vec, ReportCodes, x[2]), x[2]>> : x \in found}

\* the n smallest distances of a heap, ascending
SmallestDists(heap, n) ==
    LET asc == Ascending(heap, 1)
    IN [i \in 1..Min(n, Len(asc)) |-> asc[i][1]]

\* C11: with limit > 0 RangeSearch returns at most limit entries, the
\* smallest-distance ones of the candidates its search collected; with
\* limit < 0 every collected candidate is returned
C11_LimitTrim ==
    RangeAnswered /\ GetNumElements(H) > 0 =>
        /\ ret.args.limit > 0 =>
              /\ Len(ret.ids) <= ret.args.limit
              /\ ret.dists = SmallestDists(RangeCollected, ret.args.limit)
        /\ ret.args.limit < 0 =>
              ret.dists = SmallestDists(RangeCollected,
                                        Cardinality(RangeCollected))

\* a limit of 1 cut two collected candidates at different distances to one
C11_Witness ==
    /\ RangeAnswered
    /\ GetNumElements(H) > 1
    /\ ret.args.limit = 1
    /\ Len(ret.ids) = 1
    /\ Cardinality(RangeCollected) = 2
    /\ \E x, y \in RangeCollected : x[1] < y[1]

(* serialization *)
DeserializeAnswered == ret.op = "Deserialize"

\* C12: Deserialize, in each of its three variants, called on an index that
\* holds a point returns INDEX_NOT_EMPTY and leaves the index as it was
C12_Step ==
    Idle /\ ret'.op = "Deserialize" /\ GetNumElements(H) > 0 =>
        ret'.status = "INDEX_NOT_EMPTY" /\ UNCHANGED index

C12_IndexNotEmpty == [][C12_Step]_vars

\* the stream variant turned away by an index of three points
C12_Witness ==
    /\ DeserializeAnswered
    /\ ret.args.variant = "istream"
    /\ ret.status = "INDEX_NOT_EMPTY"
    /\ GetNumElements(H) = MaxPoints

\* C13: every Deserialize variant answers a truncated payload with READ_ERROR
C13_ReadError ==
    DeserializeAnswered /\ ret.before = {} /\ ~ret.args.full =>
        ret.status = "READ_ERROR"

\* C14: an index without points serializes to the EMPTY_HGRAPH marker, and
\* loading what it serialized to succeeds and leaves the index empty
C14_EmptyMarker ==
    /\ ret.op = "Serialize" /\ GetNumElements(saved.from) = 0 => saved.blank
    /\ DeserializeAnswered /\ GetNumElements(saved.from) = 0 /\ ret.args.full =>
          ret.status = "ok" /\ GetNumElements(H) = 0

Layers ==
    <<[graph |-> bottom_graph_, cap |-> MaxDegree]>> \o
    [j \in 1..Len(route_graphs_) |->
        [graph |-> route_graphs_[j], cap |-> MaxDegree \div 2]]

\* the ids present in a graph
Nodes(graph) == DOMAIN graph.nbrs

\* no insert is between two of its steps
AtRest == ~in_flight.active

\* every edge of the graph has its reverse edge
Symmetric(graph) ==
    \A u \in Nodes(graph) : \A v \in Range(graph.nbrs[u]) :
        v \in Nodes(graph) /\ u \in Range(graph.nbrs[v])

\* C16: after any sequence of completed inserts, at every layer, v in
\* neighbors(u) implies u in neighbors(v)
C16_Bidirectional ==
    AtRest => \A i \in 1..Len(Layers) : Symmetric(Layers[i].graph)

\* a neighbor list without duplicates and without its owner
IsSet(list, u) ==
    /\ Cardinality(Range(list)) = Len(list)
    /\ u \notin Range(list)

\* C17: in every reachable state, every neighbor list of the bottom graph
\* has at most M entries and every list of a route graph at most M / 2, and
\* no list holds an id twice or the id of its owner
C17_DegreeCap ==
    \A i \in 1..Len(Layers) : \A u \in Nodes(Layers[i].graph) :
        /\ Len(Layers[i].graph.nbrs[u]) <= Layers[i].cap
        /\ IsSet(Layers[i].graph.nbrs[u], u)

\* an insert has pruned a full list of the bottom graph and of a route graph
C17_Witness ==
    /\ AtRest
    /\ GetNumElements(H) > MaxDegree + 1
    /\ \E u \in Nodes(bottom_graph_) : Len(bottom_graph_.nbrs[u]) = MaxDegree
    /\ Len(route_graphs_) > 0
    /\ Cardinality(Nodes(route_graphs_[1])) > MaxDegree \div 2 + 1
    /\ \E u \in Nodes(route_graphs_[1]) :
           Len(route_graphs_[1].nbrs[u]) = MaxDegree \div 2

\* every node of a layer is a node of the layer below it
Monotone ==
    \A i \in 2..Len(Layers) :
        Nodes(Layers[i].graph) \subseteq Nodes(Layers[i - 1].graph)

\* C18 as stated: in every reachable state, inserts in flight included, a
\* node of layer L+1 is a node of layer L, down to the bottom graph
C18_LayerMonotone == Monotone

\* C18: whenever no insert is between two of its steps, a node of layer L+1
\* is a node of layer L, down to the bottom graph
C18_MonotoneAtRest == AtRest => Monotone

\* a completed insert has put a point into two route graphs
C18_Witness ==
    /\ AtRest
    /\ Len(route_graphs_) > 1
    /\ Nodes(route_graphs_[2]) # {}
    /\ GetNumElements(H) > 1

(**************************** searcher claims ******************************)
SearcherAnswered == ret.op = "Search"

\* how often the distance of inner id u was computed during the call
TimesQueried(u) == Cardinality({i \in 1..Len(ret.queried) : ret.queried[i] = u})

\* C19: during one call of search_one_graph or of BasicSearcher::Search the
\* codec distance of every inner id is computed at most once, whatever the
\* graph (cycles, the entry point in neighbor lists)
C19_VisitedOnce ==
    SearcherAnswered => \A u \in SearchIds : TimesQueried(u) <= 1

\* a call on a graph with a cycle through the entry point and a cycle that
\* avoids it, in which the far end of both cycles was expanded
C19_Witness ==
    /\ SearcherAnswered
    /\ ret.args.variant = "BasicSearcher"
    /\ 0 \in Range(bottom_graph_.nbrs[1])
    /\ 1 \in Range(bottom_graph_.nbrs[0])
    /\ 1 \in Range(bottom_graph_.nbrs[3])
    /\ 3 \in Range(bottom_graph_.nbrs[1])
    /\ TimesQueried(3) = 1
    /\ Len(ret.queried) >= 4

\* the ids a filter admits
Admitted(filter) == {u \in SearchIds : CheckValid(filter, u)}

\* the k-th smallest distance of the admitted points to the query
KthDistance(q, filter, k) ==
    LET asc == Ascending({<<Query(q, base_codes, u), u>> : u \in Admitted(filter)}, 1)
    IN asc[Min(k, Len(asc))][1]

\* how many of the true k nearest admitted points a result holds
Recall(heap, q, filter, k) ==
    IF Admitted(filter) = {} THEN 0
    ELSE Min(k, Cardinality({x \in heap : x[1] <= KthDistance(q, filter, k)}))

\* the result of the answered KNN call had it been made with ef = a, cut
\* to k entries as the caller of search_one_graph cuts it
KnnResultWith(a, k) ==
    Trim(SearcherRun([ret.args EXCEPT !.ef = a, !.k = k], FALSE).heap, k, ret.args.tb)

\* C20: for a fixed graph, entry point, query, filter and k, and a <= b, the
\* KNN result with ef = b holds at least as many of the true k nearest
\* admitted points as the result with ef = a
C20_EfMonotone ==
    (SearcherAnswered /\ ret.status = "ok" /\ ret.args.mode = KNN_SEARCH_MODE) =>
        \A a \in 1..ret.args.ef :
            \A k \in (IF ret.args.variant = "BasicSearcher"
                      THEN {ret.args.k} ELSE 1..MaxTopk) :
                Recall(KnnResultWith(a, k), ret.args.q, ret.args.filter, k)
                    <= Recall(KnnResultWith(ret.args.ef, k), ret.args.q,
                              ret.args.filter, k)

(************************ entry point and capacity *************************)
\* the inserted inner ids
Points == Nodes(bottom_graph_)

\* the level a point drew: the highest route graph it is a node of, or -1
PointLevel(u) ==
    IF \E j \in 1..Len(route_graphs_) : u \in Nodes(route_graphs_[j])
    THEN (CHOOSE j \in 1..Len(route_graphs_) :
            /\ u \in Nodes(route_graphs_[j])
            /\ \A i \in (j + 1)..Len(route_graphs_) : u \notin Nodes(route_graphs_[i])) - 1
    ELSE 0 - 1

\* the highest level any inserted point drew
HighestLevel == CHOOSE l \in {PointLevel(u) : u \in Points} :
                    \A u \in Points : PointLevel(u) <= l

\* the points that drew the highest level
TopPoints == {u \in Points : PointLevel(u) = HighestLevel}

Built == AtRest /\ Points # {}

\* C23 as stated: after any sequence of inserts max_level_ is the highest
\* drawn level + 1 and entry_point_id_ is the latest inserted point that
\* drew that level
C23_EntryLatest ==
    Built =>
        /\ max_level_ = HighestLevel + 1
        /\ entry_point_id_ \in TopPoints
        /\ \A u \in TopPoints : u <= entry_point_id_

\* C23: after any sequence of inserts max_level_ is the highest drawn
\* level + 1 and entry_point_id_ is the first inserted point that drew that
\* level; the first insert initializes both
C23_EntryFirst ==
    Built =>
        /\ max_level_ = HighestLevel + 1
        /\ entry_point_id_ \in TopPoints
        /\ \A u \in TopPoints : entry_point_id_ <= u

\* two points drew the highest level, above the bottom graph
C23_Witness ==
    /\ Built
    /\ HighestLevel >= 0
    /\ Cardinality(TopPoints) >= 2
    /\ entry_point_id_ > 0

\* max_capacity_ is a multiple of 1 << resize_bit that holds every point,
\* and labels_ has that length
CapacityOK ==
    /\ max_capacity_ % (2 ^ ResizeBit) = 0
    /\ max_capacity_ >= GetNumElements(H)
    /\ DOMAIN labels_ = 0..(max_capacity_ - 1)

\* max_capacity_ does not shrink, and when it grows it is the smallest
\* multiple of 1 << resize_bit that holds the points then required
CapacityStep ==
    /\ max_capacity_' >= max_capacity_
    /\ max_capacity_' > max_capacity_ =>
           max_capacity_' - 2 ^ ResizeBit < bottom_graph_'.total

\* C24: after construction and after every Add, max_capacity is a multiple
\* of 1 << resize_bit, at least the number of points, never decreases, grows
\* to the smallest multiple that covers the required size, and is the length
\* of the labels vector
C24_Capacity == CapacityOK /\ [][CapacityStep /\ CapacityOK']_vars

\* an Add made the capacity grow beyond the one of the constructor
C24_Witness ==
    /\ ret.op = "Add"
    /\ ret.status = "ok"
    /\ max_capacity_ > Constructed(use_reorder_).max_capacity_
    /\ GetNumElements(H) > Constructed(use_reorder_).max_capacity_

(************************** upper-layer descent ****************************)
\* the route graphs above the level of the point being inserted, top down
LayersAbove(level) ==
    [k \in 1..(max_level_ - 1 - level) |-> max_level_ - k]

\* every search of the descent starts where the one before ended
Chained(d) ==
    \A k \in DOMAIN d :
        d[k].ep = IF k = 1 THEN entry_point_id_ ELSE d[k - 1].top

\* C29: while a point whose level is below the top route graph is being
\* inserted, the ef = 1 descent has searched every route graph above the
\* level of the point, the top one first, each search entered at the top of
\* the result before it; this includes the points of level -1
C29_Descent ==
    (in_flight.active /\ in_flight.level < max_level_ - 1) =>
        /\ [k \in DOMAIN in_flight.descent |-> in_flight.descent[k].layer]
               = LayersAbove(in_flight.level)
        /\ Chained(in_flight.descent)

\* the same for the points that are in a route graph
C29_DescentInRoutes ==
    (in_flight.active /\ in_flight.level >= 0
        /\ in_flight.level < max_level_ - 1) =>
        /\ [k \in DOMAIN in_flight.descent |-> in_flight.descent[k].layer]
               = LayersAbove(in_flight.level)
        /\ Chained(in_flight.descent)

\* a point of level 0 is being inserted under two route graphs
C29_DescentSeen ==
    /\ in_flight.active
    /\ in_flight.level = 0
    /\ max_level_ = 2
    /\ Len(in_flight.descent) = 1

(****************************** the KNN beam *******************************)
BeamAnswered ==
    /\ SearcherAnswered
    /\ ret.status = "ok"
    /\ ret.args.mode = KNN_SEARCH_MODE

\* the largest distance of a result heap
Worst(res) == CHOOSE d \in {x[1] : x \in res} : \A x \in res : x[1] <= d

\* the distance of the closest entry of a candidate heap
Closest(cand) ==
    CHOOSE d \in {0 - x[1] : x \in cand} : \A x \in cand : d <= 0 - x[1]

BeamKept(e, ef) ==
    /\ Cardinality(e.res) <= ef
    /\ e.res # {} => e.lb = Worst(e.res)

\* C30: in a KNN search with ef >= 1 the result heap holds at most ef
\* entries after every neighbor, and lower_bound is the largest distance in
\* it when it is not empty; when the loop has ended the candidate heap is
\* empty, or its closest entry is farther than lower_bound and the result
\* heap holds exactly ef entries
C30_Beam ==
    BeamAnswered =>
        /\ \A k \in DOMAIN ret.log : BeamKept(ret.log[k], ret.args.ef)
        /\ \/ ret.cand = {}
           \/ /\ Closest(ret.cand) > ret.lb
              /\ Cardinality(ret.beam) = ret.args.ef

\* a KNN search dropped an entry from a full result heap and later left
\* the loop with candidates remaining
C30_Witness ==
    /\ BeamAnswered
    /\ ret.cand # {}
    /\ \E k \in DOMAIN ret.log :
          /\ k > 1
          /\ Cardinality(ret.log[k].res) = ret.args.ef
          /\ ret.log[k - 1].res \ ret.log[k].res # {}

(**************************** inner id numbering ***************************)
\* the inner ids the label lookup holds
AssignedIds == {label_lookup_[l] : l \in DOMAIN label_lookup_}

IdsDense ==
    /\ AssignedIds = 0..(GetNumElements(H) - 1)
    /\ Cardinality(DOMAIN label_lookup_) = GetNumElements(H)

\* the number of inputs the call answered by r had to accept
AcceptedBy(r, before) ==
    IF r.op = "Add" /\ r.status = "ok"
    THEN Len(r.args.ids) - Cardinality(RejectedAt(before, r.args.ids))
    ELSE 0

IdsCounted ==
    /\ bottom_graph_'.total = bottom_graph_.total +
          (IF Idle THEN AcceptedBy(ret', DOMAIN label_lookup_) ELSE 0)
    /\ \A l \in DOMAIN label_lookup_ :
          /\ l \in DOMAIN label_lookup_'
          /\ label_lookup_'[l] = label_lookup_[l]

Workers == 1..BuildThreads
ConcDraws == (0 - 1)..MaxConcDraw
ConcTieBreak == 1
ConcLabels == [i \in 1..ConcPoints |-> i]
\* the vectors of the batch
ConcBatches ==
    {[i \in 1..ConcPoints |-> (i - 1) % (MaxVal + 1)],
     [i \in 1..ConcPoints |-> (ConcPoints - i) % (MaxVal + 1)]}
StripeCaps == {FewStripes, MaxStripes}
\* the query of the query thread
ConcQuery == 0
ConcEfSearch == 1

NoSearch == [cand |-> {}, res |-> {}, lb |-> 0, vis |-> {}, queried |-> <<>>,
             log |-> <<>>, ub |-> FALSE]

\* hgraph.cpp 351-354: the range of worker w
TaskSize == (ConcPoints + BuildThreads - 1) \div BuildThreads
TaskBegin(w) == (w - 1) * TaskSize
TaskEnd(w) == Min(TaskBegin(w) + TaskSize, ConcPoints)

WorkerStart(w) ==
    [pc |-> IF TaskBegin(w) < TaskEnd(w) THEN "draw" ELSE "done",
     i |-> TaskBegin(w), end |-> TaskEnd(w), level |-> 0, inner_id |-> 0,
     ep |-> 0, j |-> 0, st |-> NoSearch, todo |-> <<>>, promoted |-> FALSE]

ReaderIdle == [pc |-> "idle", ep |-> 0, j |-> 0, st |-> NoSearch,
                during |-> FALSE]

\* PerNodeLocks: S stripes, S the capacity up to the cap
StripeCount(capacity, cap) == Min(capacity, cap)

PoolStart(h, datas, cap) ==
    [datas |-> datas, cur_count |-> CurCount(h),
     S |-> StripeCount(h.max_capacity_, cap),
     workers |-> [w \in Workers |-> WorkerStart(w)],
     reader |-> ReaderIdle,
     add_mutex |-> 0,
     global |-> [writer |-> 0, readers |-> {}],
     stripes |-> [s \in 0..(StripeCount(h.max_capacity_, cap) - 1) |-> 0],
     committed |-> <<h.max_level_, h.entry_point_id_>>,
     returned |-> FALSE, grown |-> FALSE, cap |-> cap]

\* hgraph.cpp 107-111, 314-316: the codes are stored and the capacity grown
\* before the workers start
InitConc ==
    /\ \E datas \in ConcBatches, cap \in StripeCaps :
         LET h == resize(InsertCodes(Constructed(FALSE), datas), ConcPoints)
         IN /\ use_reorder_ = h.use_reorder_
            /\ labels_ = h.labels_
            /\ label_lookup_ = h.label_lookup_
            /\ base_codes = h.base_codes
            /\ precise_codes = h.precise_codes
            /\ bottom_graph_ = h.bottom_graph_
            /\ route_graphs_ = h.route_graphs_
            /\ max_level_ = h.max_level_
            /\ entry_point_id_ = h.entry_point_id_
            /\ max_capacity_ = h.max_capacity_
            /\ threads = PoolStart(h, datas, cap)
    /\ ret = NoResponse
    /\ saved = NoPayload
    /\ in_flight = NoInsert

(* the locks *)
\* inner_id mod S
StripeOf(id) == id % threads.S

\* mutant: a per-node lock is never waited for
StripeFree_always(id) == TRUE

\* no thread holds the stripe of id uniquely
StripeFree(id) == threads.stripes[StripeOf(id)] = 0

\* mutant: the unique hold of global_mutex_ does not wait for the readers
WriterMayEnter_past_readers(g) == g.writer = 0

\* std::lock_guard<std::shared_mutex> wlock(global_mutex_)
WriterMayEnter(g) == g.writer = 0 /\ g.readers = {}

\* std::shared_lock<std::shared_mutex> rlock(global_mutex_)
ReaderMayEnter(g) == g.writer = 0

(* add_one_point of a worker, step by step *)
LayerGraph(h, j) == IF j >= 0 THEN h.route_graphs_[j + 1] ELSE h.bottom_graph_

SetLayer(h, j, g) ==
    IF j >= 0 THEN [h EXCEPT !.route_graphs_[j + 1] = g]
    ELSE [h EXCEPT !.bottom_graph_ = g]

LayerDegree(j) == IF j >= 0 THEN RouteMaxDegree ELSE MaxDegree

WorkerData(r) == threads.datas[r.i + 1]

\* the search a worker starts on a layer, from its entry point
WorkerSearch(h, r, ef) ==
    SearchStart(DefaultSearchMode, WorkerData(r), BuildCodes(h), h.labels_,
                InnerParam(r.ep, ef, NoFilter, 0), ConcTieBreak)

\* hgraph.cpp 747-764: the next layer to link the point into, r.j >= 0 a
\* route graph and r.j = -1 the bottom graph; an empty layer takes the point
\* without a search
RECURSIVE AdvanceRoutes(_, _)
AdvanceRoutes(h, r) ==
    IF r.j < 0 - 1 THEN [h |-> h, r |-> [r EXCEPT !.pc = "leave"]]
    ELSE IF LayerGraph(h, r.j).total # 0
    THEN [h |-> h,
          r |-> [r EXCEPT !.pc = "search",
                          !.st = WorkerSearch(h, r, EfConstruct)]]
    ELSE AdvanceRoutes(
             SetLayer(h, r.j, IncreaseTotalCount(
                 InsertNeighborsById(LayerGraph(h, r.j), r.inner_id, <<>>))),
             [r EXCEPT !.j = @ - 1])

\* hgraph.cpp 741-746: the next route graph of the descent, or the first
\* layer to link into
AdvanceDescent(h, r) ==
    IF r.j > ToUnsigned(r.level)
    THEN [h |-> h,
          r |-> [r EXCEPT !.pc = "descend", !.st = WorkerSearch(h, r, 1)]]
    ELSE AdvanceRoutes(h, [r EXCEPT !.j = r.level])

\* the inner id whose per-node lock the worker needs for its next step
Wanted(r) ==
    IF r.pc = "enter" THEN r.inner_id
    ELSE IF r.pc \in {"descend", "search"} THEN Top(r.st.cand, ConcTieBreak)[2]
    ELSE Head(r.todo)

WorkerEf(r) == IF r.pc = "descend" THEN 1 ELSE EfConstruct

\* one pass of the loop of search_one_graph by a worker
WorkerExpanded(h, r) ==
    ExpandOnce(DefaultSearchMode, WorkerData(r), LayerGraph(h, r.j),
               BuildCodes(h), h.labels_,
               InnerParam(r.ep, WorkerEf(r), NoFilter, 0), ConcTieBreak, r.st)

WorkerSearchEnded(r, st) ==
    SearchEnded(DefaultSearchMode, InnerParam(r.ep, WorkerEf(r), NoFilter, 0),
                ConcTieBreak, st)

\* hgraph.cpp 743: the descent goes on from the top of the result
DescentReturns(h, r, st) ==
    AdvanceDescent(h, [r EXCEPT !.ep = Top(st.res, ConcTieBreak)[2],
                                !.j = ToUnsigned(@ - 1),
                                !.st = NoSearch])

\* mutually_connect_new_element up to the list of the new point, which is
\* written under the lock add_one_point holds
OwnListWritten(h, r, selected) ==
    [h |-> SetLayer(h, r.j,
               InsertNeighborsById(LayerGraph(h, r.j), r.inner_id, selected)),
     r |-> [r EXCEPT !.pc = "link", !.todo = selected, !.ep = selected[1],
                     !.st = NoSearch]]

SearchReturns(h, r, st) ==
    OwnListWritten(h, r,
        SelectNeighbors(Ascending(st.res, ConcTieBreak), BuildCodes(h),
                        LayerDegree(r.j), <<>>))

AfterExpand(h, r, st) ==
    IF ~WorkerSearchEnded(r, st) THEN [h |-> h, r |-> [r EXCEPT !.st = st]]
    ELSE IF r.pc = "descend" THEN DescentReturns(h, r, st)
    ELSE SearchReturns(h, r, st)

\* the new point is appended to the list of one selected neighbor, under
\* the lock of that neighbor; after the last one the layer counts the point
LinkedBack(h, r) ==
    SetLayer(h, r.j,
        LinkBack(LayerGraph(h, r.j), BuildCodes(h), LayerDegree(r.j),
                 Head(r.todo), r.inner_id, ConcTieBreak))

AfterLink(h, r) ==
    IF Tail(r.todo) # <<>> THEN [h |-> h, r |-> [r EXCEPT !.todo = Tail(@)]]
    ELSE AdvanceRoutes(
             SetLayer(h, r.j, IncreaseTotalCount(LayerGraph(h, r.j))),
             [r EXCEPT !.todo = <<>>, !.j = @ - 1])

(* the steps of a worker *)
Worker(w) == threads.workers[w]

\* the worker goes on as r on the index h
WorkerGoes(w, a) ==
    /\ Store(a.h)
    /\ threads' = [threads EXCEPT !.workers[w] = a.r]

\* hgraph.cpp 322-329: the level is drawn and the label recorded
DrawOp ==
    /\ \E w \in Workers, level \in ConcDraws :
         /\ Worker(w).pc = "draw"
         /\ WorkerGoes(w,
                [h |-> AssignLabel(H, ConcLabels[Worker(w).i + 1],
                                   Worker(w).i + threads.cur_count),
                 r |-> [Worker(w) EXCEPT
                          !.pc = "decide", !.level = level,
                          !.inner_id = Worker(w).i + threads.cur_count,
                          !.promoted = FALSE]])
    /\ UNCHANGED <<ret, saved, in_flight>>

\* hgraph.cpp 331-332, 342: under add_mutex the worker finds out whether it
\* promotes; a worker that does not gives add_mutex back at once
DecideOp ==
    /\ \E w \in Workers :
         /\ Worker(w).pc = "decide"
         /\ threads.add_mutex = 0
         /\ threads' =
              IF Promotes(H, Worker(w).level)
              THEN [threads EXCEPT !.add_mutex = w,
                                   !.workers[w].pc = "wlock",
                                   !.workers[w].promoted = TRUE]
              ELSE [threads EXCEPT !.workers[w].pc = "rlock"]
    /\ UNCHANGED <<index, ret, saved, in_flight>>

\* hgraph.cpp 333-338: the unique hold, the new route graphs and max_level_
WLockOp ==
    /\ \E w \in Workers :
         /\ Worker(w).pc = "wlock"
         /\ WriterMayEnter(threads.global)
         /\ Store(Promote(H, Worker(w).level))
         /\ threads' = [threads EXCEPT !.global.writer = w,
                                       !.workers[w].pc = "enter"]
    /\ UNCHANGED <<ret, saved, in_flight>>

\* hgraph.cpp 344: the shared hold
RLockOp ==
    /\ \E w \in Workers :
         /\ Worker(w).pc = "rlock"
         /\ ReaderMayEnter(threads.global)
         /\ threads' = [threads EXCEPT !.global.readers = @ \cup {w},
                                       !.workers[w].pc = "enter"]
    /\ UNCHANGED <<index, ret, saved, in_flight>>

\* hgraph.cpp 730-746: add_one_point reads the entry point and takes the
\* lock of the new point, which it keeps until it returns
Entered(w, a) ==
    /\ Store(a.h)
    /\ threads' = [threads EXCEPT
                     !.stripes[StripeOf(Worker(w).inner_id)] = w,
                     !.workers[w] = a.r]

EnterOp ==
    /\ \E w \in Workers :
         /\ Worker(w).pc = "enter"
         /\ StripeFree(Wanted(Worker(w)))
         /\ Entered(w, AdvanceDescent(H,
                [Worker(w) EXCEPT !.ep = entry_point_id_,
                                  !.j = ToUnsigned(max_level_ - 1)]))
    /\ UNCHANGED <<ret, saved, in_flight>>

\* hgraph.cpp 406-470: one pass of the loop of a search of the worker; the
\* neighbor list is read under the shared lock of its node
ExpandOp ==
    /\ \E w \in Workers :
         /\ Worker(w).pc \in {"descend", "search"}
         /\ StripeFree(Wanted(Worker(w)))
         /\ WorkerGoes(w, AfterExpand(H, Worker(w),
                                      WorkerExpanded(H, Worker(w))))
    /\ UNCHANGED <<ret, saved, in_flight>>

\* the new point is linked back from one neighbor, under the unique lock
\* of the neighbor
LinkBackOp ==
    /\ \E w \in Workers :
         /\ Worker(w).pc = "link"
         /\ StripeFree(Wanted(Worker(w)))
         /\ WorkerGoes(w, AfterLink(LinkedBack(H, Worker(w)), Worker(w)))
    /\ UNCHANGED <<ret, saved, in_flight>>

\* hgraph.cpp 765, 340-346: add_one_point returns and gives up the lock of
\* the point; a promotion writes the entry point and gives up add_mutex and
\* the unique hold, another insert its shared hold
NextTask(r) ==
    [r EXCEPT !.pc = IF r.i + 1 < r.end THEN "draw" ELSE "done",
              !.i = @ + 1]

Left(w, r) ==
    /\ Store(SetEntry(H, r.promoted, r.inner_id))
    /\ threads' = [threads EXCEPT
          !.stripes[StripeOf(r.inner_id)] = 0,
          !.add_mutex = IF r.promoted THEN 0 ELSE @,
          !.global = IF r.promoted THEN [@ EXCEPT !.writer = 0]
                     ELSE [@ EXCEPT !.readers = @ \ {w}],
          !.committed = IF r.promoted THEN <<max_level_, r.inner_id>> ELSE @,
          !.workers[w] = NextTask(r)]

LeaveOp ==
    /\ \E w \in Workers :
         /\ Worker(w).pc = "leave"
         /\ Left(w, Worker(w))
    /\ UNCHANGED <<ret, saved, in_flight>>

\* hgraph.cpp 355: wait_until_nothing_in_flight, and Add returns
AllDone == \A w \in Workers : Worker(w).pc = "done"

PoolReturnsOp ==
    /\ AllDone
    /\ ~threads.returned
    /\ Idle
    /\ ret' = [Response("Add", "ok",
                   [dim |-> Dim, null |-> FALSE, ids |-> ConcLabels])
                 EXCEPT !.before = {}]
    /\ threads' = [threads EXCEPT !.returned = TRUE]
    /\ UNCHANGED <<index, saved, in_flight>>

(* the query thread: hgraph.cpp 144-161 *)
ReaderEf(q) == IF q.pc = "route" THEN 1 ELSE ConcEfSearch

ReaderParam(q) == InnerParam(q.ep, ReaderEf(q), NoFilter, 0)

ReaderSearch(q) ==
    [q EXCEPT !.st = SearchStart(DefaultSearchMode, ConcQuery, base_codes,
                                 labels_, ReaderParam(q), ConcTieBreak)]

\* the next graph KnnSearch searches: route graph q.j, or the bottom graph
ReaderLayer(q) ==
    ReaderSearch([q EXCEPT !.pc = IF q.j >= 0 THEN "route" ELSE "bottom"])

\* KnnSearch reads entry_point_id_ and route_graphs_.size(); it asks for no
\* hold of global_mutex_.  during records whether a worker held it uniquely.
ReaderBeginOp ==
    /\ threads.reader.pc = "idle"
    /\ entry_point_id_ # NoEntry
    /\ threads' = [threads EXCEPT !.reader =
          ReaderLayer([@ EXCEPT !.ep = entry_point_id_,
                                !.j = Len(route_graphs_) - 1,
                                !.during = threads.global.writer # 0])]
    /\ UNCHANGED <<index, ret, saved, in_flight>>

ReaderAfter(q, st) ==
    IF ~SearchEnded(DefaultSearchMode, ReaderParam(q), ConcTieBreak, st)
    THEN [q EXCEPT !.st = st]
    ELSE IF q.pc = "route"
    THEN ReaderLayer([q EXCEPT !.ep = Top(st.res, ConcTieBreak)[2],
                               !.j = @ - 1])
    ELSE [q EXCEPT !.pc = "done", !.st = st]

ReaderExpandOp ==
    /\ threads.reader.pc \in {"route", "bottom"}
    /\ StripeFree(Top(threads.reader.st.cand, ConcTieBreak)[2])
    /\ threads' = [threads EXCEPT !.reader =
          ReaderAfter(@,
              ExpandOnce(DefaultSearchMode, ConcQuery,
                         LayerGraph(H, IF @.pc = "route" THEN @.j ELSE 0 - 1),
                         base_codes, labels_, ReaderParam(@), ConcTieBreak,
                         @.st))]
    /\ UNCHANGED <<index, ret, saved, in_flight>>

(* the next Add *)
\* the vectors of the batch the caller adds next
NextBatch == [i \in 1..MoreBatch |-> (i - 1) % (MaxVal + 1)]

\* inside search_one_graph, between getFreeVisitedList (hgraph.cpp 374) and
\* releaseVisitedList (471)
HoldsVisitedList(q) == q.pc \in {"route", "bottom"}

\* hgraph.cpp 101-111, 314-316: the next Add stores its codes and calls
\* resize(total + cur_count) before add_mutex is constructed (318) and
\* without a hold of global_mutex_; resize (767-779) resizes the per-node
\* locks, replaces pool_ and resizes labels_.  The next Add is followed up
\* to the start of its workers.
GrowOp ==
    /\ threads.returned
    /\ ~threads.grown
    /\ Store(resize(InsertCodes(H, NextBatch), MoreBatch + CurCount(H)))
    /\ threads' = [threads EXCEPT
          !.grown = TRUE,
          !.S = StripeCount(max_capacity_', threads.cap),
          !.stripes = [s \in 0..(StripeCount(max_capacity_', threads.cap) - 1)
                         |-> 0]]
    /\ UNCHANGED <<ret, saved, in_flight>>

NextConc ==
    \/ GrowOp
    \/ DrawOp
    \/ DecideOp
    \/ WLockOp
    \/ RLockOp
    \/ EnterOp
    \/ ExpandOp
    \/ LinkBackOp
    \/ LeaveOp
    \/ PoolReturnsOp
    \/ ReaderBeginOp
    \/ ReaderExpandOp
    \/ TakeResponse

SpecConc == InitConc /\ [][NextConc]_vars

(**************************** the build pool *******************************)
\* the worker is inside add_one_point and holds the lock of its point
InAddOnePoint(r) == r.pc \in {"descend", "search", "link", "leave"}

\* the workers holding a lock that the next step of worker w waits for
Holders(w) ==
    IF Worker(w).pc = "decide" THEN {threads.add_mutex} \ {0}
    ELSE IF Worker(w).pc = "wlock"
    THEN ({threads.global.writer} \ {0}) \cup threads.global.readers
    ELSE IF Worker(w).pc = "rlock" THEN {threads.global.writer} \ {0}
    ELSE IF Worker(w).pc \in {"enter", "descend", "search", "link"}
    THEN {threads.stripes[StripeOf(Wanted(Worker(w)))]} \ {0}
    ELSE {}

\* the sets of workers each of which waits for a lock that a worker of the
\* set holds: none of them takes another step
DeadlockSets ==
    {D \in (SUBSET Workers) \ {{}} : \A w \in D : Holders(w) \cap D # {}}

\* C21: while the workers of a build pool insert one batch, no worker waits
\* for add_mutex, global_mutex_ or a per-node lock that is never given up:
\* no set of workers wait for locks held within the set
C21_DeadlockFree == DeadlockSets = {}

\* the same when the stripe table has a stripe for every point
C21_FreeUnshared == threads.S >= ConcPoints => DeadlockSets = {}

\* a batch inserted with a stripe for every point has returned
C21_Returned ==
    /\ threads.S >= ConcPoints
    /\ threads.returned
    /\ GetNumElements(H) = ConcPoints

\* the query thread is between its read of the entry point and its result
ReaderTraversing == threads.reader.pc \in {"route", "bottom"}

\* C22: KnnSearch never traverses while a promotion holds global_mutex_
\* uniquely, and the entry point it starts from is a node of the top route
\* graph it sees
C22_ReadersExcluded ==
    /\ ~(ReaderTraversing /\ threads.global.writer # 0)
    /\ (threads.reader.pc = "route"
          /\ threads.reader.j = Len(route_graphs_) - 1
          /\ threads.reader.st.queried = <<threads.reader.ep>>)
         => threads.reader.ep \in Nodes(LayerGraph(H, threads.reader.j))

\* C25: a point of the batch is linked into the bottom graph, where the
\* searches can reach it, only when every point of the batch with a smaller
\* inner id is linked
C25_VisibleInOrder ==
    \A j \in Points : \A k \in 0..(j - 1) : k \in Points

\* this step, a search of a worker or of the query thread reads the
\* neighbor list of inner id c
WorkerReads(c) ==
    \E v \in Workers :
        /\ Worker(v).pc \in {"descend", "search"}
        /\ threads'.workers[v] # threads.workers[v]
        /\ Top(Worker(v).st.cand, ConcTieBreak)[2] = c

ReaderReads(c) ==
    /\ ReaderTraversing
    /\ threads'.reader # threads.reader
    /\ Top(threads.reader.st.cand, ConcTieBreak)[2] = c

\* add_one_point of inner id c has been called and has not returned
BeingAdded(c) ==
    \E u \in Workers :
        /\ Worker(u).pc = "enter" \/ InAddOnePoint(Worker(u))
        /\ Worker(u).inner_id = c

\* C26: no search, of the query thread or of an insert, reads the neighbor
\* list of an inner id while add_one_point of that inner id is in progress
C26_Snapshot ==
    [][\A c \in 0..(ConcPoints - 1) :
          WorkerReads(c) \/ ReaderReads(c) => ~BeingAdded(c)]_vars

\* the query thread has reached a point that is linked into the bottom
\* graph and whose add_one_point has not returned, and waits for its lock
C26_Witness ==
    /\ threads.reader.pc = "bottom"
    /\ threads.reader.st.log # <<>>
    /\ BeingAdded(Top(threads.reader.st.cand, ConcTieBreak)[2])
    /\ Top(threads.reader.st.cand, ConcTieBreak)[2] \in Points
    /\ ~StripeFree(Top(threads.reader.st.cand, ConcTieBreak)[2])

\* the worker is on the promotion path and holds global_mutex_ uniquely
Promoting(r) == r.promoted /\ (r.pc = "enter" \/ InAddOnePoint(r))

\* the worker holds global_mutex_, uniquely or shared, around add_one_point
Inserting(r) == r.pc = "enter" \/ InAddOnePoint(r)

\* C28: while a worker promotes, no other worker is inside add_one_point
\* or on the promotion path; a worker on the common path has a level below
\* max_level_, and max_level_ and entry_point_id_ are as the last completed
\* promotion left them
C28_PromotionExcludes ==
    \A w \in Workers :
        /\ Promoting(Worker(w)) =>
             \A v \in Workers \ {w} :
                 /\ ~Inserting(Worker(v))
                 /\ ~(Worker(v).promoted /\ Worker(v).pc = "wlock")
        /\ Inserting(Worker(w)) /\ ~Worker(w).promoted =>
             /\ Worker(w).level < max_level_
             /\ threads.committed = <<max_level_, entry_point_id_>>

\* a promotion is inside add_one_point while another worker, which has
\* decided not to promote, waits for its shared hold
C28_Witness ==
    \E w \in Workers, v \in Workers :
        /\ Promoting(Worker(w))
        /\ Worker(w).pc \in {"search", "link"}
        /\ Worker(v).pc = "rlock"

\* the inner ids of a batch inserted by the pool: once every worker is
\* done they are 0..N-1 with N the total count of the bottom graph
C27_PoolDense == AllDone => IdsDense /\ GetNumElements(H) = ConcPoints

(************************* the searchers, safety ***************************)
RangeCallAnswered == SearcherAnswered /\ ret.args.mode = RANGE_SEARCH_MODE

\* the filter rejects the entry point and the entry point is beyond radius
EntryRejectedAndFar ==
    /\ RangeCallAnswered
    /\ ret.args.filter.on
    /\ entry_point_id_ \notin ret.args.filter.admit
    /\ Query(ret.args.q, base_codes, entry_point_id_) > ret.args.radius

\* C37: a RANGE search never pops an empty result heap, also when the
\* filter rejects the entry point and its distance exceeds radius; this for
\* search_one_graph and for BasicSearcher::search_impl
C37_NoEmptyPop == RangeCallAnswered => ~ret.popped_empty

\* C38: BasicSearcher::visit reads neighbors[i] only for i below the length
\* of the list, in its prefetch loop and in its visiting loop, also for a
\* node whose list is empty or shorter than prefetch_jump_visit_size_
C38_ReadsInBounds ==
    SearcherAnswered /\ ret.args.variant = "BasicSearcher" => ~ret.overread

(*************************** KNN result content ****************************)
KnnOk ==
    /\ SearcherAnswered
    /\ ret.status = "ok"
    /\ ret.args.mode = KNN_SEARCH_MODE

\* the distances of a heap, ascending
Distances(heap) ==
    [i \in 1..Cardinality(heap) |-> Ascending(heap, 1)[i][1]]

\* the admitted ones among the inner ids S, with their distances
AdmittedOf(S) ==
    {<<Query(ret.args.q, base_codes, u), u>> :
        u \in S \cap Admitted(ret.args.filter)}

\* the nodes reachable from the nodes S along the neighbor lists
RECURSIVE Reach(_)
ReachStep(S, T) == IF T \subseteq S THEN S ELSE Reach(S \cup T)

Reach(S) == ReachStep(S, UNION {Range(GetNeighbors(bottom_graph_, u)) : u \in S})

\* how many entries the call may return: topk is applied by
\* BasicSearcher, search_one_graph returns its whole result heap
KeptAtMost ==
    IF ret.args.variant = "BasicSearcher" THEN Min(ret.args.k, ret.args.ef)
    ELSE ret.args.ef

\* heap is the n closest of the pool, up to ties
ClosestOf(heap, pool, n) ==
    /\ heap \subseteq pool
    /\ Cardinality(heap) = Min(n, Cardinality(pool))
    /\ Distances(heap) = SubSeq(Distances(pool), 1, Cardinality(heap))

\* C31: a KNN call of a searcher returns the min(topk, ef, m) closest of
\* the m admitted nodes whose distance it computed, up to ties; when ef is
\* at least the number of nodes reachable from the entry point these are
\* the topk closest admitted reachable nodes
C31_ResultContent ==
    KnnOk =>
        /\ ClosestOf(ret.heap, AdmittedOf(Range(ret.queried)), KeptAtMost)
        /\ ret.args.ef >= Cardinality(Reach({entry_point_id_})) =>
             ClosestOf(ret.heap, AdmittedOf(Reach({entry_point_id_})),
                       KeptAtMost)

\* a filtered call with ef = 2 left an admitted node whose distance it
\* computed out of its two results
C31_Witness ==
    /\ KnnOk
    /\ ret.args.filter.on
    /\ ret.args.ef = 2
    /\ Cardinality(ret.heap) = 2
    /\ Cardinality(AdmittedOf(Range(ret.queried))) > 2

\* a call with ef = 2 on a graph with two nodes reachable from the entry
\* point returned both
C31_ReachableSeen ==
    /\ KnnOk
    /\ ret.args.ef = 2
    /\ Cardinality(Reach({entry_point_id_})) = 2
    /\ Cardinality(ret.heap) = 2

(*************************** reorder ***************************************)
\* a query whose result heap went through reorder
Reordered ==
    /\ KnnAnswered \/ RangeAnswered
    /\ use_reorder_
    /\ ~ReadsUnwritten(H)

\* the k reorder is called with: hgraph.cpp 166 and 518
ReorderK ==
    IF ret.op = "KnnSearch" THEN Min(ret.args.k, GetNumElements(H))
    ELSE ret.args.limit

\* the entries of a heap with their precise distances
Rescored(heap) ==
    {<<Query(ret.args.q.vec, precise_codes, e[2]), e[2]>> : e \in heap}

\* C32: after reorder(heap, k) with k > 0 the heap holds the min(k, n)
\* entries with the smallest precise distances among the n it held, each
\* with its precise distance; with k <= 0 it holds all n
C32_ReorderKeepsBest ==
    Reordered =>
        LET n == Cardinality(ret.found)
            kept == IF ReorderK > 0 THEN Min(ReorderK, n) ELSE n
        IN /\ ret.reordered \subseteq Rescored(ret.found)
           /\ Cardinality(ret.reordered) = kept
           /\ Distances(ret.reordered)
                = SubSeq(Distances(Rescored(ret.found)), 1, kept)

\* reorder dropped the entry that was closest by the base codec and is
\* not among the k closest by the precise codec
C32_Witness ==
    /\ Reordered
    /\ ReorderK > 0
    /\ ReorderK < Cardinality(ret.found)
    /\ \E e \in ret.found :
         /\ \A f \in ret.found : e[1] <= f[1]
         /\ e[2] \notin {r[2] : r \in ret.reordered}

\* a RangeSearch without a limit reordered a heap of two or more
C32_Unlimited ==
    /\ Reordered
    /\ ReorderK < 0
    /\ Cardinality(ret.found) > 1

(*************************** visited lists *********************************)
\* a call of search_one_graph that ended, by a return or by an error
CallEnded ==
    /\ SearcherAnswered
    /\ ret.args.variant = "search_one_graph"
    /\ ret.status \in {"ok", "error"}

\* C33: every visited list a call of search_one_graph takes from the pool
\* has gone back to it once when the call ends, also when the call ends
\* through an error of a codec query or of an allocation
C33_HandlesReturned ==
    CallEnded => ret.acquired = 1 /\ ret.released = ret.acquired

\* a call that returned gave its list back
C33_ReturnedOnReturn ==
    CallEnded /\ ret.status = "ok" => ret.released = 1

(*************************** capacity growth *******************************)
\* C35: the capacity grows only while add_mutex and global_mutex_ are held
\* by the growing thread, so the growth overlaps no search that holds a
\* visited list; stated here for the overlap
C35_NoOverlap ==
    [][max_capacity_' # max_capacity_ => ~HoldsVisitedList(threads.reader)]_vars

\* C35, the locks: the capacity grows only while add_mutex and the unique
\* hold of global_mutex_ are taken
C35_UnderLocks ==
    [][max_capacity_' # max_capacity_ =>
         threads.add_mutex # 0 /\ threads.global.writer # 0]_vars

(*************************** a failed Deserialize **************************)
\* the step is a Deserialize call that returns READ_ERROR
FailedLoadStep ==
    /\ Idle
    /\ ret'.op = "Deserialize"
    /\ ret'.status = "READ_ERROR"

\* C36: a Deserialize that fails partway with READ_ERROR leaves
\* label_lookup_, labels_, max_level_, entry_point_id_, max_capacity_ and
\* route_graphs_ as they were before the call
C36_FailedLoadKeepsIndex ==
    [][FailedLoadStep =>
         /\ label_lookup_' = label_lookup_
         /\ labels_' = labels_
         /\ max_level_' = max_level_
         /\ entry_point_id_' = entry_point_id_
         /\ max_capacity_' = max_capacity_
         /\ route_graphs_' = route_graphs_]_vars

(*************************** returned labels *******************************)
\* the labels of the points that have been inserted
InsertedLabels == {labels_[u] : u \in 0..(GetNumElements(H) - 1)}

\* C39: every label KnnSearch or RangeSearch returns is the label of an
\* inserted point, one whose inner id is below the number of inserted
\* points; on an index into which nothing was inserted both return no ids
C39_ReturnedAreInserted ==
    KnnAnswered \/ RangeAnswered =>
        \A j \in 1..Len(ret.ids) : ret.ids[j] \in InsertedLabels

(*************************** levels and entry point ************************)
\* an insert has completed, or a Deserialize of a whole payload succeeded
Settled ==
    \/ AddSucceeded /\ \E i \in 1..Len(ret.args.ids) :
                          ret.args.ids[i] \notin ret.before
    \/ DeserializeAnswered /\ ret.status = "ok" /\ ret.args.full

\* max_level_ is the number of route graphs, and the entry point of an
\* index that holds points is an inserted point, listed in the top route
\* graph when there is one
LevelsConsistent ==
    /\ max_level_ = Len(route_graphs_)
    /\ GetNumElements(H) > 0 =>
         /\ entry_point_id_ \in 0..(GetNumElements(H) - 1)
         /\ max_level_ > 0 =>
              entry_point_id_ \in DOMAIN route_graphs_[max_level_].nbrs

\* the step is an insert or a Deserialize, and it succeeds
SettlingStep ==
    /\ Idle
    /\ ret'.status = "ok"
    /\ \/ ret'.op = "Add" /\ bottom_graph_'.total > bottom_graph_.total
       \/ ret'.op = "Deserialize" /\ ret'.args.full

\* C40: after every completed insert and every successful Deserialize,
\* max_level_ equals route_graphs_.size(), the entry point of a non-empty
\* index is below the number of inserted points and present in the top
\* route graph, and max_level_ has not decreased
C40_Levels ==
    /\ [](Settled => LevelsConsistent)
    /\ [][SettlingStep => max_level_' >= max_level_]_vars

\* C40, the part that does not compare two states
C40_Consistent == Settled => LevelsConsistent

\* C40, max_level_ over the inserts into an index no Deserialize has
\* written to
C40_GrowsByInserts ==
    [][Idle /\ ret'.op = "Add" /\ saved.kind = "none"
         => max_level_' >= max_level_]_vars

====
